---- MODULE Spec2Model ----
(***************************************************************************)
(* Model of the action-selection loop of recon/main.py (start_task and the *)
(* functions it drives: start_session, get_screenshot, get_dom_coordinates,*)
(* coordinate_correction_helper, get_next_action, call_gemini_api,         *)
(* send_command, end_session, prune_history).                              *)
(*                                                                         *)
(* The external collaborators (browser backend, file system, vision model) *)
(* are nondeterministic: every call draws its outcome from a small set.    *)
(* Screenshots are opaque; what the code derives from them (decodability,  *)
(* perceptual-hash distance to the previous one, cursor colour) is drawn   *)
(* per step.                                                               *)
(***************************************************************************)
EXTENDS Integers, Sequences, FiniteSets, TLC

\* ---------------------------------------------------------------- bounds
\* Largest max_steps a TaskRequest carries in the broad regime.
MaxSteps == 3
\* max_steps of the deep regime (narrow model repertoire, long sessions).
DeepSteps == 5
\* max_steps of the long regime (every screen differs from the one before,
\* sessions long enough for the history to be pruned).
LongSteps == 11
\* Longest history handed to calculate_action_diversity.
DiversityLen == 6
\* Most elements handed to an intent matcher.
MatchLen == 2
\* Most elements handed to filter_clickable_elements.
FilterLen == 2
\* Most words recognized in one screenshot.
OcrLen == 3
\* Most lines a client sends to the MCP server.
McpLen == 3
\* Most calls made on one session manager.
MaxCalls == 5
\* Largest max_steps of the runs checked for termination.
LiveSteps == 2
\* Largest stuck_counter a temperature is computed for.
MaxStuck == 6

\* ------------------------------------------------------ program constants
ScreenshotAttempts == 3
ScreenshotPolls == 13
DomRetries == 2
ModelAttempts == 3
ApiMaxAttempts == 3
CommandRetries == 3
StartRetries == 3
EndRetries == 3
StuckSkip == 3
SimilarThreshold == 5
VisualChangeThreshold == 5
StuckRegion == 2
HistoryCap == 10
KeepScreenshots == 5
CenterX == 960
CenterY == 540
ScrollAmount == 100
ScreenW == 1920
\* Temperatures, in thousandths.
BaseTemp == 300
FocusedTemp == 200
FocusStep == 100
FocusDistance == 10
StuckStep == 100
MaxBoost == 400
LowDiversity == 400
DiversityGain == 200
TempCap == 900
RetryStep == 100
ScreenH == 1080
None == -1

\* ------------------------------------------------------------ input sets
\* Perceptual-hash distances between the previous and the current screenshot.
Distances == {4, 5, 6, 11}
Colors == {"red", "green", "blue", "not_found"}
\* Target the model names in a move_mouse call.
ModelPoints == {<<100, 100>>}
\* Position the coordinate corrector moves to when one of its tiers succeeds.
CorrPoint == <<700, 300>>
\* Cursor position a corrector call starts from.
CorrFrom == <<100, 100>>

Act(t, x, y) == [tool_name |-> t, x |-> x, y |-> y]
Move(x, y) == Act("move_mouse", x, y)
NoAction == Act("none", None, None)

\* Function calls the model can answer with in the broad regime; "zoom" is a
\* tool name send_command does not know.
BroadMenu ==
    {Move(p[1], p[2]) : p \in ModelPoints}
        \cup {Act("keypress", None, None), Act("report_done", None, None),
              Act("zoom", None, None)}
\* Function calls the model can answer with in the deep regime.
DeepMenu ==
    {Move(100, 100), Act("report_done", None, None), Act("zoom", None, None)}

KnownTools ==
    {"click", "right_click", "middle_click", "move_mouse", "click_hold",
     "click_release", "keypress", "scroll_wheel_up", "scroll_wheel_down",
     "report_done"}

VARIABLES
    pc,                 \* position of start_task
    max_steps,          \* task.max_steps
    deep,               \* TRUE in the deep regime (environment parameter)
    step,               \* loop index of start_task
    history,            \* start_task's history list
    stuck_counter,      \* start_task's stuck_counter local
    status,             \* "status" of the returned dict ("running" before)
    steps,              \* "steps" of the returned dict (None when absent)
    screenshot_attempt, \* screenshot_attempt of the validation loop
    screenshot_success, \* screenshot_success of the validation loop
    dom_retries,        \* retries of get_dom_coordinates
    gna_stuck,          \* get_next_action's stuck_counter local
    is_making_progress, \* get_next_action's local of that name
    has_visual_change,  \* get_next_action's local of that name
    distance,           \* hash distance of the previous and current screenshot
    attempt,            \* attempt of get_next_action's loop
    api_attempt,        \* attempt parameter of call_gemini_api
    action,             \* (tool_name, args) returned by get_next_action
    source,             \* which return statement of get_next_action produced it
    retries,            \* retries of send_command
    start_retries,      \* retries of start_session
    end_retries,        \* retries of end_session
    requests,           \* HTTP requests sent to the action model in this step
    commands_sent,      \* commands acknowledged for the main loop
    correction,         \* what the last coordinate_correction_helper call did
    cursor_color,       \* start_task's cursor_color local ("none" when unset)
    diversity_score,    \* get_next_action's local, in thousandths
    current_temp,       \* "temperature" of the payload, in thousandths
    corr_args,          \* arguments and collaborator outcomes of a corrector call
    frame               \* locals of the one function a function-level
                        \* specification runs, under their names in the code

vars ==
    <<pc, max_steps, deep, step, history, stuck_counter, status, steps,
      screenshot_attempt, screenshot_success, dom_retries, gna_stuck,
      is_making_progress, has_visual_change, distance, attempt, api_attempt,
      action, source, retries, start_retries, end_retries, requests,
      commands_sent, correction, cursor_color, diversity_score, current_temp,
      corr_args, frame>>

\* Variables that only the function-level specifications move.
unitvars == <<diversity_score, current_temp, corr_args, frame>>

\* No function is being run on its own.
NoFrame == [function |-> "none"]

\* ------------------------------------------------------- pure functions

Last(h) == h[Len(h)]

\* Variant: pruning keeps the screenshots of three entries fewer.
prune_history_short(h, max_items) ==
    IF Len(h) <= max_items
    THEN h
    ELSE [i \in 1..Len(h) |->
            IF i <= Len(h) - (max_items - 3)
            THEN [h[i] EXCEPT !.screenshot = FALSE]
            ELSE h[i]]

\* Variant: pruning leaves every screenshot in place.
prune_history_idle(h, max_items) == h

\* Variant: the entries older than the max_items most recent are removed.
prune_history_dropping(h, max_items) ==
    IF Len(h) <= max_items
    THEN h
    ELSE SubSeq(h, Len(h) - max_items + 1, Len(h))

\* prune_history: entries older than the max_items most recent lose their
\* screenshot bytes; nothing else changes and no entry is removed.
prune_history(h, max_items) ==
    IF Len(h) <= max_items
    THEN h
    ELSE [i \in 1..Len(h) |->
            IF i <= Len(h) - max_items
            THEN [h[i] EXCEPT !.screenshot = FALSE]
            ELSE h[i]]

\* How entry i of the history goes into the prompt: with its image when it
\* is one of the three most recent and holds screenshot bytes, as a text
\* summary when it is older, as a note that the visuals are unavailable
\* when it is recent but holds no bytes.
ImageTurns == 3
history_part(h, i) ==
    LET include_image == i > Len(h) - ImageTurns
    IN IF include_image /\ h[i].screenshot THEN "image"
       ELSE IF ~include_image THEN "summary"
       ELSE "unavailable"

\* get_screenshot: the file is polled max_retries times; `appears` is the
\* poll at which it exists (max_retries or more: never).
get_screenshot(appears, content) ==
    IF appears < ScreenshotPolls THEN content ELSE "HTTPException"

\* compare_screenshots: (is_making_progress, has_visual_change).  `ok` is
\* FALSE when the request fails, raises or runs into with_timeout's default.
compare_screenshots(previous_screenshot, ok, progress, d) ==
    IF ~previous_screenshot \/ ~ok
    THEN [progress |-> FALSE, visual |-> FALSE]
    ELSE [progress |-> progress, visual |-> d > VisualChangeThreshold]

\* get_next_action, "Update stuck counter based on progress assessment".
stuck_after_compare(s, cmp) ==
    IF ~cmp.progress /\ ~cmp.visual THEN s + 1 ELSE 0

\* Variant: the similarity block without its `stuck_counter < 1` guard.
stuck_after_reminder_unguarded(s, visual, d) ==
    IF d < SimilarThreshold /\ ~visual THEN s + 1 ELSE s

\* get_next_action, "If no visual change, this is evidence of being stuck".
stuck_after_reminder(s, visual, d) ==
    IF d < SimilarThreshold /\ ~visual /\ s < 1 THEN s + 1 ELSE s

\* get_next_action shows the similarity reminder ("The current screenshot is
\* very similar to the previous one") for distance d.
screenshot_reminder(d) == d < SimilarThreshold

\* Variant: the comparison is made whatever the last entry's counter.
observe_unskipped(h, ok, progress, d) ==
    compare_screenshots(Last(h).screenshot, ok, progress, d)

\* What get_next_action's history block observes: the comparison is
\* skipped once the last entry's counter reached 3.
observe(h, ok, progress, d) ==
    IF Last(h).stuck_counter >= StuckSkip
    THEN [progress |-> FALSE, visual |-> FALSE]
    ELSE compare_screenshots(Last(h).screenshot, ok, progress, d)

\* get_next_action's stuck_counter after the history block.
update_stuck(s, progress, visual, d) ==
    stuck_after_reminder(
        stuck_after_compare(s, [progress |-> progress, visual |-> visual]),
        visual, d)

\* "Move to a completely different region" of the no-function-call fallback.
fallback_region(h) ==
    IF Len(h) > 0 /\ Last(h).tool_name = "move_mouse"
    THEN LET last_x == Last(h).x
             last_y == Last(h).y
         IN IF last_x < CenterX /\ last_y < CenterY THEN Move(1400, 800)
            ELSE IF last_x >= CenterX /\ last_y < CenterY THEN Move(400, 800)
            ELSE IF last_x < CenterX /\ last_y >= CenterY THEN Move(1400, 200)
            ELSE Move(400, 200)
    ELSE Move(800, 400)

\* The return at the end of get_next_action ("We should never get here").
final_fallback == Move(CenterX, CenterY)

\* Fallback of the last attempt when the response carries no function call.
\* The return statement sits inside the last else branch: the first two
\* branches compute their arguments and fall out of the loop.
no_call_fallback(h, stuck) ==
    LET computed ==
            IF Len(h) = 0 THEN Move(CenterX, CenterY)
            ELSE IF stuck >= StuckRegion THEN fallback_region(h)
            ELSE IF \E i \in 1..Len(h) : h[i].tool_name = "move_mouse"
                 THEN Act("scroll_wheel_down", ScrollAmount, None)
                 ELSE Move(CenterX, CenterY)
        returns == Len(h) # 0 /\ ~(stuck >= StuckRegion)
    IN IF returns
       THEN [action |-> computed, source |-> "fallback"]
       ELSE [action |-> final_fallback, source |-> "final"]

\* Variant: with nothing left to try, the fallback reports the task done.
emergency_fallback_done(h) ==
    IF Len(h) = 0 THEN Move(CenterX, CenterY)
    ELSE IF Last(h).tool_name = "move_mouse" THEN Act("click", None, None)
    ELSE Act("report_done", None, None)

\* Fallback of the last attempt when the request raised a caught error.
emergency_fallback(h) ==
    IF Len(h) = 0 THEN Move(CenterX, CenterY)
    ELSE IF Last(h).tool_name = "move_mouse" THEN Act("click", None, None)
    ELSE IF Last(h).tool_name = "click"
            \/ Last(h).tool_name \in {"scroll_wheel_up", "scroll_wheel_down"}
         THEN Act("scroll_wheel_down", ScrollAmount, None)
    ELSE Move(CenterX, CenterY)

\* Diversity scores (thousandths) get_next_action may have computed.
Diversities == {0, 200, 395, 400, 1000}

\* calculate_dynamic_temperature, in thousandths.
calculate_dynamic_temperature(stuck, progress, screenshot_distance) ==
    IF progress /\ screenshot_distance > FocusDistance
    THEN IF FocusedTemp >= BaseTemp - FocusStep
         THEN FocusedTemp
         ELSE BaseTemp - FocusStep
    ELSE IF stuck > 1
    THEN BaseTemp + (IF MaxBoost <= stuck * StuckStep
                     THEN MaxBoost
                     ELSE stuck * StuckStep)
    ELSE BaseTemp

\* `diversity_boost = 0.2 * (1.0 - diversity_score)` below 0.4, else 0.
diversity_boost(diversity) ==
    IF diversity < LowDiversity
    THEN (DiversityGain * (1000 - diversity)) \div 1000
    ELSE 0

\* dynamic_temp of get_next_action, capped.
dynamic_temp(stuck, progress, screenshot_distance, diversity) ==
    LET t == calculate_dynamic_temperature(stuck, progress, screenshot_distance)
             + diversity_boost(diversity)
    IN IF t <= TempCap THEN t ELSE TempCap

\* Variant: the retry increase is not capped.
attempt_temp_uncapped(dynamic, k) == dynamic + k * RetryStep

\* Variant: the retry does not raise the temperature.
attempt_temp_flat(dynamic, k) == dynamic

\* current_temp of attempt k.
attempt_temp(dynamic, k) ==
    IF dynamic + k * RetryStep <= TempCap
    THEN dynamic + k * RetryStep
    ELSE TempCap

\* coordinate_correction_helper.  The DOM and the OCR tier are "nomatch"
\* (nothing to move to), "moved" (its move command was acknowledged) or
\* "cmdfail" (the move command raised after its retries).
TierOutcomes == {"nomatch", "moved", "cmdfail"}

\* What the vision model answers the corrector: no answer in time, a
\* response without text, "COORDINATES: NONE", text without the pattern, or
\* "COORDINATES: x,y" as written (a sign is not a digit).
AnswerXs == {-5, 0, 700, 1920, 1921}
AnswerYs == {-5, 0, 300, 1080, 1081}
ModelAnswers ==
    {[kind |-> k, x |-> None, y |-> None] :
        k \in {"timeout", "no_candidates", "none", "garbage"}}
    \cup {[kind |-> "coords", x |-> x, y |-> y] : x \in AnswerXs, y \in AnswerYs}

\* re.search(r"COORDINATES:\s*(\d+),\s*(\d+)", text_response): the matched
\* pair, or <<>> when the pattern is not found.
parse_coordinates(answer) ==
    IF answer.kind = "coords" /\ answer.x >= 0 /\ answer.y >= 0
    THEN <<answer.x, answer.y>>
    ELSE <<>>

\* Variant: only the lower bounds are checked.
in_bounds_lower_only(p) == 0 <= p[1] /\ 0 <= p[2]

\* `0 <= new_x <= 1920 and 0 <= new_y <= 1080`.
in_bounds(p) == 0 <= p[1] /\ p[1] <= ScreenW /\ 0 <= p[2] /\ p[2] <= ScreenH

\* The returned (success, position, explanation) and what the call did on
\* the way: DOM fetches, OCR runs, model calls, move commands sent and
\* acknowledged.
Correction(ok, p, why, d, o, m, sent, acked) ==
    [success |-> ok, position |-> p, explanation |-> why, dom_fetches |-> d,
     ocr_runs |-> o, model_calls |-> m, moves_sent |-> sent,
     moves_ok |-> acked]

NoCorrection == Correction(FALSE, <<None, None>>, "not_called", 0, 0, 0, 0, 0)

CorrArgs(color, current_position, dom, ocr, answer, move_ok) ==
    [cursor_color |-> color, current_position |-> current_position,
     dom |-> dom, ocr |-> ocr, answer |-> answer, move_ok |-> move_ok]

NoArgs ==
    CorrArgs("none", <<None, None>>, "nomatch", "nomatch",
             [kind |-> "none", x |-> None, y |-> None], FALSE)

\* Variant: the outcome of the model-guided move is not looked at.
vision_tier_unchecked(a, sent) ==
    LET p == parse_coordinates(a.answer)
    IN IF a.answer.kind = "timeout"
       THEN Correction(FALSE, a.current_position, "Analysis timed out",
                       1, 1, 1, sent, 0)
       ELSE IF a.answer.kind = "no_candidates"
       THEN Correction(FALSE, a.current_position, "Correction error",
                       1, 1, 1, sent, 0)
       ELSE IF p # <<>> /\ in_bounds(p)
       THEN Correction(TRUE, p, "Corrected", 1, 1, 1, sent + 1,
                       IF a.move_ok THEN 1 ELSE 0)
       ELSE Correction(FALSE, a.current_position, "Correction failed",
                       1, 1, 1, sent, 0)

\* APPROACH 3 of coordinate_correction_helper, after `sent` failed moves.
vision_tier(a, sent) ==
    LET p == parse_coordinates(a.answer)
    IN IF a.answer.kind = "timeout"
       THEN Correction(FALSE, a.current_position, "Analysis timed out",
                       1, 1, 1, sent, 0)
       ELSE IF a.answer.kind = "no_candidates"
       THEN Correction(FALSE, a.current_position, "Correction error",
                       1, 1, 1, sent, 0)
       ELSE IF p # <<>> /\ in_bounds(p)
       THEN IF a.move_ok
            THEN Correction(TRUE, p, "Corrected", 1, 1, 1, sent + 1, 1)
            ELSE Correction(FALSE, a.current_position,
                            "Failed to execute move", 1, 1, 1, sent + 1, 0)
       ELSE Correction(FALSE, a.current_position, "Correction failed",
                       1, 1, 1, sent, 0)

\* APPROACH 2, after `sent` failed moves.
ocr_tier(a, sent) ==
    IF a.ocr = "moved"
    THEN Correction(TRUE, CorrPoint, "OCR-guided", 1, 1, 0, sent + 1, 1)
    ELSE vision_tier(a, IF a.ocr = "cmdfail" THEN sent + 1 ELSE sent)

\* Variant: only a green cursor returns at once.
coordinate_correction_helper_green_only(a) ==
    IF a.cursor_color = "green"
    THEN Correction(FALSE, a.current_position, "already clickable",
                    0, 0, 0, 0, 0)
    ELSE IF a.dom = "moved"
    THEN Correction(TRUE, CorrPoint, "DOM-guided", 1, 0, 0, 1, 1)
    ELSE ocr_tier(a, IF a.dom = "cmdfail" THEN 1 ELSE 0)

\* Variant: a DOM-guided move does not return, the OCR tier runs as well.
coordinate_correction_helper_no_stop(a) ==
    IF a.cursor_color # "red" /\ a.cursor_color # "not_found"
    THEN Correction(FALSE, a.current_position, "already clickable",
                    0, 0, 0, 0, 0)
    ELSE IF a.dom = "moved"
    THEN LET r == ocr_tier(a, 1)
         IN [r EXCEPT !.success = TRUE, !.moves_ok = r.moves_ok + 1]
    ELSE ocr_tier(a, IF a.dom = "cmdfail" THEN 1 ELSE 0)

coordinate_correction_helper(a) ==
    IF a.cursor_color # "red" /\ a.cursor_color # "not_found"
    THEN Correction(FALSE, a.current_position, "already clickable",
                    0, 0, 0, 0, 0)
    ELSE IF a.dom = "moved"
    THEN Correction(TRUE, CorrPoint, "DOM-guided", 1, 0, 0, 1, 1)
    ELSE ocr_tier(a, IF a.dom = "cmdfail" THEN 1 ELSE 0)

\* The corrector's model answer that stands for a tier outcome.
answer_of(vision) ==
    IF vision = "nomatch"
    THEN [kind |-> "none", x |-> None, y |-> None]
    ELSE [kind |-> "coords", x |-> CorrPoint[1], y |-> CorrPoint[2]]

\* Outcomes of one HTTP request to the action model.
Failures ==
    {"timeout", "request_error", "no_candidates", "empty_candidates",
     "no_content", "no_parts", "no_call"}
\* The deep regime's model either answers with a function call or with a
\* response that carries no candidates.
Outcomes == IF deep THEN {"call", "no_candidates"} ELSE Failures \cup {"call"}
Menu == IF deep THEN DeepMenu ELSE BroadMenu
\* What the screenshot comparison can come back with: (completed, progress
\* assessed, hash distance).
Observations ==
    IF deep /\ max_steps >= LongSteps
    THEN {<<TRUE, TRUE, 11>>}
    ELSE BOOLEAN \X BOOLEAN \X Distances

\* ------------------------------------------------------------- control

\* Locals of one loop iteration that the next iteration starts afresh.
StepLocals ==
    <<screenshot_success, dom_retries, gna_stuck, is_making_progress,
      has_visual_change, distance, attempt, api_attempt, action, source,
      requests>>

ResetStepLocals ==
    /\ screenshot_success' = FALSE
    /\ dom_retries' = 0
    /\ gna_stuck' = 0
    /\ is_making_progress' = TRUE
    /\ has_visual_change' = TRUE
    /\ distance' = 0
    /\ attempt' = 0
    /\ api_attempt' = 1
    /\ action' = NoAction
    /\ source' = "none"
    /\ requests' = 0

\* end_session(...) followed by return {"status": st, "steps": n, ...}.
\* The callers say where screenshot_attempt and retries stand.
Finish(st, n) ==
    /\ pc' = "ending"
    /\ status' = st
    /\ steps' = n
    /\ end_retries' = 0
    /\ ResetStepLocals

\* Variant: the loop gives up one index early.
BeginStepShort(i) ==
    /\ step' = i
    /\ screenshot_attempt' = 0
    /\ retries' = 0
    /\ IF i + 1 < max_steps
       THEN /\ pc' = "screenshot"
            /\ ResetStepLocals
            /\ UNCHANGED <<status, steps, end_retries>>
       ELSE Finish("timeout", max_steps)

\* Head of `for step in range(max_steps)` for index i; past the last index
\* the loop is left: "Max steps reached".
BeginStep(i) ==
    /\ step' = i
    /\ screenshot_attempt' = 0
    /\ retries' = 0
    /\ IF i < max_steps
       THEN /\ pc' = "screenshot"
            /\ ResetStepLocals
            /\ UNCHANGED <<status, steps, end_retries>>
       ELSE Finish("timeout", max_steps)

Start ==
    /\ pc = "start"
    /\ step = 0
    /\ history = <<>>
    /\ stuck_counter = 0
    /\ status = "running"
    /\ steps = None
    /\ screenshot_attempt = 0
    /\ screenshot_success = FALSE
    /\ dom_retries = 0
    /\ gna_stuck = 0
    /\ is_making_progress = TRUE
    /\ has_visual_change = TRUE
    /\ distance = 0
    /\ attempt = 0
    /\ api_attempt = 1
    /\ action = NoAction
    /\ source = "none"
    /\ retries = 0
    /\ start_retries = 0
    /\ end_retries = 0
    /\ requests = 0
    /\ commands_sent = 0
    /\ correction = NoCorrection
    /\ cursor_color = "none"
    /\ diversity_score = 0
    /\ current_temp = None
    /\ corr_args = NoArgs
    /\ frame = NoFrame

Init == deep = FALSE /\ max_steps \in 0..MaxSteps /\ Start

DeepInit == deep = TRUE /\ max_steps = DeepSteps /\ Start

\* start_session, one attempt; exhaustion raises into start_task's outer
\* handler, which returns {"status": "error", ...} (end_session is not
\* reached there: session_id is unbound).
StartSession(ok) ==
    /\ pc = "start"
    /\ IF ok
       THEN /\ BeginStep(0)
            /\ UNCHANGED start_retries
       ELSE /\ start_retries' = start_retries + 1
            /\ IF start_retries + 1 >= StartRetries
               THEN /\ pc' = "done"
                    /\ status' = "error"
               ELSE UNCHANGED <<pc, status>>
            /\ UNCHANGED <<step, steps, end_retries, screenshot_attempt,
                           retries, StepLocals>>
    /\ UNCHANGED <<unitvars, correction, cursor_color, max_steps, deep, history, stuck_counter, commands_sent>>

\* Variant: the validation loop starts over instead of giving up.
ScreenshotAttemptForever(appears, content) ==
    /\ pc = "screenshot"
    /\ IF get_screenshot(appears, content) = "valid"
       THEN /\ pc' = "dom"
            /\ screenshot_success' = TRUE
            /\ screenshot_attempt' = 0
            /\ UNCHANGED <<dom_retries, gna_stuck, is_making_progress,
                           has_visual_change, distance, attempt, api_attempt,
                           action, source, requests>>
       ELSE /\ screenshot_attempt' = (screenshot_attempt + 1) % ScreenshotAttempts
            /\ UNCHANGED <<pc, StepLocals>>
    /\ UNCHANGED <<unitvars, correction, cursor_color, max_steps, deep, step, history, stuck_counter, retries,
                   start_retries, commands_sent, status, steps, end_retries>>

\* Variant: the failed step is counted as completed.
ScreenshotAttemptCounted(appears, content) ==
    /\ pc = "screenshot"
    /\ IF get_screenshot(appears, content) = "valid"
       THEN /\ pc' = "dom"
            /\ screenshot_success' = TRUE
            /\ screenshot_attempt' = 0
            /\ UNCHANGED <<status, steps, end_retries, dom_retries, gna_stuck,
                           is_making_progress, has_visual_change, distance,
                           attempt, api_attempt, action, source, requests>>
       ELSE /\ screenshot_attempt' = screenshot_attempt + 1
            /\ IF screenshot_attempt + 1 >= ScreenshotAttempts
               THEN Finish("failed", step + 1)
               ELSE UNCHANGED <<pc, status, steps, end_retries, StepLocals>>
    /\ UNCHANGED <<unitvars, correction, cursor_color, max_steps, deep, step, history, stuck_counter, retries,
                   start_retries, commands_sent>>

\* One pass of the screenshot validation loop, and the check after it.
ScreenshotAttempt(appears, content) ==
    /\ pc = "screenshot"
    /\ IF get_screenshot(appears, content) = "valid"
       THEN /\ pc' = "dom"
            /\ screenshot_success' = TRUE
            /\ screenshot_attempt' = 0
            /\ UNCHANGED <<status, steps, end_retries, dom_retries, gna_stuck,
                           is_making_progress, has_visual_change, distance,
                           attempt, api_attempt, action, source, requests>>
       ELSE /\ screenshot_attempt' = screenshot_attempt + 1
            /\ IF screenshot_attempt + 1 >= ScreenshotAttempts
               THEN Finish("failed", step)
               ELSE UNCHANGED <<pc, status, steps, end_retries, StepLocals>>
    /\ UNCHANGED <<unitvars, correction, cursor_color, max_steps, deep, step, history, stuck_counter, retries,
                   start_retries, commands_sent>>

\* get_dom_coordinates(max_retries=2), one attempt; best effort.
FetchDom(found) ==
    /\ pc = "dom"
    /\ IF found \/ dom_retries + 1 >= DomRetries
       THEN pc' = "cursor" /\ dom_retries' = 0
       ELSE pc' = "dom" /\ dom_retries' = dom_retries + 1
    /\ UNCHANGED <<unitvars, correction, cursor_color, max_steps, deep, step, history, stuck_counter, status,
                   steps, screenshot_attempt, screenshot_success, gna_stuck,
                   is_making_progress, has_visual_change, distance, attempt,
                   api_attempt, action, source, retries, start_retries,
                   end_retries, requests, commands_sent>>

\* Variant: the correction does not wait for a stuck step.
DetectAndCorrectAlways(color, dom, ocr, vision) ==
    /\ pc = "cursor"
    /\ pc' = "select"
    /\ IF /\ Len(history) > 0
          /\ Last(history).tool_name = "move_mouse"
          /\ color \in {"red", "not_found"}
          /\ Last(history).agent_explanation # "none"
       THEN LET r == coordinate_correction_helper(
                         CorrArgs(color,
                                  <<Last(history).x, Last(history).y>>,
                                  dom, ocr, answer_of(vision),
                                  vision = "moved"))
            IN /\ correction' = r
               /\ cursor_color' = IF r.success THEN "unknown" ELSE color
               /\ IF r.success
                  THEN history' =
                           [history EXCEPT ![Len(history)].x = r.position[1],
                                           ![Len(history)].y = r.position[2]]
                  ELSE UNCHANGED history
       ELSE /\ cursor_color' = color
            /\ UNCHANGED <<history, correction>>
    /\ UNCHANGED <<unitvars, max_steps, deep, step, stuck_counter, status, steps,
                   screenshot_attempt, screenshot_success, dom_retries,
                   gna_stuck, is_making_progress, has_visual_change, distance,
                   attempt, api_attempt, action, source, retries,
                   start_retries, end_retries, requests, commands_sent>>

\* get_dom_md (no state), detect_cursor and the coordinate correction.
DetectAndCorrect(color, dom, ocr, vision) ==
    /\ pc = "cursor"
    /\ pc' = "select"
    /\ IF /\ Len(history) > 0
          /\ Last(history).tool_name = "move_mouse"
          /\ color \in {"red", "not_found"}
          /\ stuck_counter > 0
          /\ Last(history).agent_explanation # "none"
       THEN LET r == coordinate_correction_helper(
                         CorrArgs(color,
                                  <<Last(history).x, Last(history).y>>,
                                  dom, ocr, answer_of(vision),
                                  vision = "moved"))
            IN /\ correction' = r
               /\ cursor_color' = IF r.success THEN "unknown" ELSE color
               /\ IF r.success
                  THEN history' =
                           [history EXCEPT ![Len(history)].x = r.position[1],
                                           ![Len(history)].y = r.position[2]]
                  ELSE UNCHANGED history
       ELSE /\ cursor_color' = color
            /\ UNCHANGED <<history, correction>>
    /\ UNCHANGED <<unitvars, max_steps, deep, step, stuck_counter, status, steps,
                   screenshot_attempt, screenshot_success, dom_retries,
                   gna_stuck, is_making_progress, has_visual_change, distance,
                   attempt, api_attempt, action, source, retries,
                   start_retries, end_retries, requests, commands_sent>>

\* get_next_action from its start to the screenshot comparison: the history
\* is pruned in place, the counter is read from the last entry and the
\* comparison (or its skipping) sets the two flags.
Compare(ok, progress, d) ==
    /\ pc = "select"
    /\ pc' = "assess"
    /\ correction' = NoCorrection
    /\ cursor_color' = "none"
    /\ history' = prune_history(history, KeepScreenshots)
    /\ IF Len(history) = 0
       THEN UNCHANGED <<gna_stuck, is_making_progress, has_visual_change,
                        distance>>
       ELSE LET o == observe(prune_history(history, KeepScreenshots), ok,
                             progress, d)
            IN /\ gna_stuck' = Last(history).stuck_counter
               /\ is_making_progress' = o.progress
               /\ has_visual_change' = o.visual
               /\ distance' = d
    /\ UNCHANGED <<unitvars, max_steps, deep, step, stuck_counter, status, steps,
                   screenshot_attempt, screenshot_success, dom_retries,
                   attempt, api_attempt, action, source, retries,
                   start_retries, end_retries, requests, commands_sent>>

\* get_next_action's update of the stuck counter, up to the attempt loop.
Assess ==
    /\ pc = "assess"
    /\ pc' = "model"
    /\ gna_stuck' = IF Len(history) = 0
                    THEN 0
                    ELSE update_stuck(gna_stuck, is_making_progress,
                                      has_visual_change, distance)
    /\ is_making_progress' = TRUE
    /\ has_visual_change' = TRUE
    /\ distance' = 0
    /\ attempt' = 0
    /\ api_attempt' = 1
    /\ UNCHANGED <<unitvars, correction, cursor_color, max_steps, deep, step, history, stuck_counter, status,
                   steps, screenshot_attempt, screenshot_success, dom_retries,
                   action, source, retries, start_retries, end_retries,
                   requests, commands_sent>>

\* get_next_action returns (tool_name, args, ..., stuck_counter).
Return(a, src) ==
    /\ pc' = "command"
    /\ action' = a
    /\ source' = src
    /\ stuck_counter' = gna_stuck
    /\ requests' = requests + 1
    /\ attempt' = 0
    /\ api_attempt' = 1
    /\ gna_stuck' = 0
    /\ UNCHANGED <<step, status, steps, end_retries, screenshot_attempt,
                   screenshot_success, dom_retries, is_making_progress,
                   has_visual_change, distance, retries>>

\* Variant: the attempt loop runs one attempt too many.
NextAttemptExtra(fb) ==
    IF attempt = ModelAttempts
    THEN Return(fb.action, fb.source)
    ELSE /\ attempt' = attempt + 1
         /\ api_attempt' = 1
         /\ requests' = requests + 1
         /\ UNCHANGED <<pc, step, status, steps, end_retries, action, source,
                        stuck_counter, screenshot_attempt, screenshot_success,
                        dom_retries, gna_stuck, is_making_progress,
                        has_visual_change, distance, retries>>

\* The attempt ends without a function call or with a caught error.
NextAttempt(fb) ==
    IF attempt = ModelAttempts - 1
    THEN Return(fb.action, fb.source)
    ELSE /\ attempt' = attempt + 1
         /\ api_attempt' = 1
         /\ requests' = requests + 1
         /\ UNCHANGED <<pc, step, status, steps, end_retries, action, source,
                        stuck_counter, screenshot_attempt, screenshot_success,
                        dom_retries, gna_stuck, is_making_progress,
                        has_visual_change, distance, retries>>

\* One HTTP request of call_gemini_api and what get_next_action does with
\* its outcome (`call` is the function call of a "call" response).
ModelRequest(outcome, call) ==
    /\ pc = "model"
    /\ IF outcome \in {"timeout", "request_error"}
       THEN IF api_attempt < ApiMaxAttempts
            THEN /\ api_attempt' = api_attempt + 1
                 /\ requests' = requests + 1
                 /\ UNCHANGED <<pc, step, status, steps, end_retries, attempt,
                                action, source, stuck_counter,
                                screenshot_attempt, screenshot_success,
                                dom_retries, gna_stuck, is_making_progress,
                                has_visual_change, distance, retries>>
            ELSE NextAttempt([action |-> emergency_fallback(history),
                              source |-> "emergency"])
       ELSE IF outcome \in {"no_candidates", "empty_candidates"}
       THEN \* AttributeError / IndexError: not in the caught tuple, the
            \* step ends in start_task's `except Exception: continue`
            /\ BeginStep(step + 1)
            /\ UNCHANGED stuck_counter
       ELSE IF outcome \in {"no_content", "no_parts"}
       THEN NextAttempt([action |-> emergency_fallback(history),
                         source |-> "emergency"])
       ELSE IF outcome = "no_call"
       THEN NextAttempt(no_call_fallback(history, gna_stuck))
       ELSE Return(call, "model")
    /\ UNCHANGED <<unitvars, correction, cursor_color, max_steps, deep, history, start_retries, commands_sent>>

\* Variant: the reporting step is not counted.
ReportDoneUncounted ==
    /\ pc = "command"
    /\ action.tool_name = "report_done"
    /\ Finish("success", step)
    /\ UNCHANGED <<unitvars, correction, cursor_color, max_steps, deep, step, history, stuck_counter,
                   screenshot_attempt, retries, start_retries, commands_sent>>

\* Variant: start_task returns without ending the session.
ReportDoneUnended ==
    /\ pc = "command"
    /\ action.tool_name = "report_done"
    /\ pc' = "done"
    /\ status' = "success"
    /\ steps' = step + 1
    /\ end_retries' = 0
    /\ ResetStepLocals
    /\ UNCHANGED <<unitvars, correction, cursor_color, max_steps, deep, step,
                   history, stuck_counter, screenshot_attempt, retries,
                   start_retries, commands_sent>>

\* `if tool_name == "report_done"`.
ReportDone ==
    /\ pc = "command"
    /\ action.tool_name = "report_done"
    /\ Finish("success", step + 1)
    /\ UNCHANGED <<unitvars, correction, cursor_color, max_steps, deep, step, history, stuck_counter,
                   screenshot_attempt, retries, start_retries, commands_sent>>

\* Variant: the ValueError reaches start_task's outer handler.
UnknownToolEscapes ==
    /\ pc = "command"
    /\ action.tool_name \notin KnownTools
    /\ pc' = "done"
    /\ status' = "error"
    /\ UNCHANGED <<unitvars, correction, cursor_color, max_steps, deep, step, history, stuck_counter, steps,
                   screenshot_attempt, retries, StepLocals, start_retries,
                   end_retries, commands_sent>>

\* Variant: the entry is appended and the command counted before the tool
\* name is looked up.
UnknownToolRecorded ==
    /\ pc = "command"
    /\ action.tool_name \notin KnownTools
    /\ history' = Append(history,
                         [tool_name |-> action.tool_name, x |-> action.x,
                          y |-> action.y, stuck_counter |-> stuck_counter,
                          screenshot |-> TRUE, agent_explanation |-> source])
    /\ commands_sent' = commands_sent + 1
    /\ BeginStep(step + 1)
    /\ UNCHANGED <<unitvars, correction, cursor_color, max_steps, deep,
                   stuck_counter, start_retries>>

\* send_command raises ValueError("Unknown tool"): `except Exception`.
UnknownTool ==
    /\ pc = "command"
    /\ action.tool_name \notin KnownTools
    /\ BeginStep(step + 1)
    /\ UNCHANGED <<unitvars, correction, cursor_color, max_steps, deep, history, stuck_counter, start_retries,
                   commands_sent>>

\* Variant: the history entry is appended before the command is acknowledged.
SendCommandEager(ok) ==
    /\ pc = "command"
    /\ action.tool_name \in KnownTools \ {"report_done"}
    /\ LET entry == [tool_name |-> action.tool_name, x |-> action.x,
                     y |-> action.y, stuck_counter |-> stuck_counter,
                     screenshot |-> TRUE, agent_explanation |-> source]
           h == Append(history, entry)
       IN history' = IF Len(h) > HistoryCap
                     THEN prune_history(h, KeepScreenshots)
                     ELSE h
    /\ IF ok
       THEN /\ commands_sent' = commands_sent + 1
            /\ BeginStep(step + 1)
       ELSE /\ retries' = CommandRetries
            /\ Finish("failed", step)
            /\ UNCHANGED <<step, commands_sent, screenshot_attempt>>
    /\ UNCHANGED <<unitvars, correction, cursor_color, max_steps, deep, stuck_counter, start_retries>>

\* One attempt of send_command for the chosen action, then history.append.
SendCommand(ok) ==
    /\ pc = "command"
    /\ action.tool_name \in KnownTools \ {"report_done"}
    /\ IF ok
       THEN /\ LET entry == [tool_name |-> action.tool_name, x |-> action.x,
                             y |-> action.y, stuck_counter |-> stuck_counter,
                             screenshot |-> TRUE,
                             agent_explanation |-> source]
                   h == Append(history, entry)
               IN history' = IF Len(h) > HistoryCap
                             THEN prune_history(h, KeepScreenshots)
                             ELSE h
            /\ commands_sent' = commands_sent + 1
            /\ BeginStep(step + 1)
       ELSE /\ retries' = retries + 1
            /\ IF retries + 1 >= CommandRetries
               THEN Finish("failed", step)
               ELSE UNCHANGED <<pc, status, steps, end_retries, StepLocals>>
            /\ UNCHANGED <<step, history, commands_sent, screenshot_attempt>>
    /\ UNCHANGED <<unitvars, correction, cursor_color, max_steps, deep, stuck_counter, start_retries>>

\* One attempt of end_session; after its retries it gives up silently and
\* start_task returns.
EndSession(ok) ==
    /\ pc = "ending"
    /\ IF ok \/ end_retries + 1 >= EndRetries
       THEN pc' = "done"
       ELSE pc' = "ending"
    /\ end_retries' = IF ok THEN end_retries ELSE end_retries + 1
    /\ UNCHANGED <<unitvars, correction, cursor_color, max_steps, deep, step, history, stuck_counter, status,
                   steps, screenshot_attempt, retries, StepLocals,
                   start_retries, commands_sent>>

Next ==
    \/ \E ok \in BOOLEAN : StartSession(ok)
    \/ \E appears \in {0, ScreenshotPolls},
          content \in {"valid", "empty", "undecodable"} :
            ScreenshotAttempt(appears, content)
    \/ \E found \in BOOLEAN : FetchDom(found)
    \/ \E c \in Colors, dom \in TierOutcomes, ocr \in TierOutcomes,
          vision \in TierOutcomes : DetectAndCorrect(c, dom, ocr, vision)
    \/ \E o \in Observations : Compare(o[1], o[2], o[3])
    \/ Assess
    \/ \E outcome \in Outcomes, call \in Menu : ModelRequest(outcome, call)
    \/ ReportDone
    \/ UnknownTool
    \/ \E ok \in BOOLEAN : SendCommand(ok)
    \/ \E ok \in BOOLEAN : EndSession(ok)

Spec == Init /\ [][Next]_vars

DeepSpec == DeepInit /\ [][Next]_vars

LongInit == deep = TRUE /\ max_steps = LongSteps /\ Start

LongSpec == LongInit /\ [][Next]_vars

\* ------------------------------------------- function-level specifications

\* The main loop's variables, at rest while a single function is exercised.
restvars ==
    <<max_steps, deep, step, history, stuck_counter, status, steps,
      screenshot_attempt, screenshot_success, dom_retries, has_visual_change,
      api_attempt, action, source, retries, start_retries, end_retries,
      requests, commands_sent, cursor_color>>

AtRest ==
    /\ max_steps = 0
    /\ deep = FALSE
    /\ step = 0
    /\ history = <<>>
    /\ stuck_counter = 0
    /\ status = "running"
    /\ steps = None
    /\ screenshot_attempt = 0
    /\ screenshot_success = FALSE
    /\ dom_retries = 0
    /\ has_visual_change = TRUE
    /\ api_attempt = 1
    /\ action = NoAction
    /\ source = "none"
    /\ retries = 0
    /\ start_retries = 0
    /\ end_retries = 0
    /\ requests = 0
    /\ commands_sent = 0
    /\ cursor_color = "none"

\* get_next_action's temperature for the attempts of one step, for every
\* stuck counter, progress flag, distance and diversity score.
TempInit ==
    /\ pc = "temperature"
    /\ gna_stuck \in 0..MaxStuck
    /\ is_making_progress \in BOOLEAN
    /\ distance \in Distances \cup {0}
    /\ diversity_score \in Diversities
    /\ attempt = 0
    /\ current_temp = None
    /\ correction = NoCorrection
    /\ corr_args = NoArgs
    /\ frame = NoFrame
    /\ AtRest

\* Head of the attempt loop: current_temp for this attempt.
SetTemperature ==
    /\ pc = "temperature"
    /\ pc' = "request"
    /\ current_temp' =
           attempt_temp(dynamic_temp(gna_stuck, is_making_progress, distance,
                                     diversity_score), attempt)
    /\ UNCHANGED <<restvars, gna_stuck, is_making_progress, distance,
                   diversity_score, attempt, correction, corr_args, frame>>

\* The attempt yields no function call: next attempt, if any is left.
RetryRequest ==
    /\ pc = "request"
    /\ IF attempt < ModelAttempts - 1
       THEN pc' = "temperature" /\ attempt' = attempt + 1
       ELSE pc' = "returned" /\ UNCHANGED attempt
    /\ UNCHANGED <<restvars, gna_stuck, is_making_progress, distance,
                   diversity_score, current_temp, correction, corr_args, frame>>

TempNext == SetTemperature \/ RetryRequest

TempSpec == TempInit /\ [][TempNext]_vars

\* One call of coordinate_correction_helper, for every cursor colour, tier
\* outcome and model answer.
CorrInit ==
    /\ pc = "correct"
    /\ corr_args \in {CorrArgs(c, CorrFrom, d, o, a, m) :
                         c \in Colors, d \in TierOutcomes, o \in TierOutcomes,
                         a \in ModelAnswers, m \in BOOLEAN}
    /\ correction = NoCorrection
    /\ gna_stuck = 0
    /\ is_making_progress = TRUE
    /\ distance = 0
    /\ diversity_score = 0
    /\ attempt = 0
    /\ current_temp = None
    /\ frame = NoFrame
    /\ AtRest

Correct ==
    /\ pc = "correct"
    /\ pc' = "corrected"
    /\ correction' = coordinate_correction_helper(corr_args)
    /\ UNCHANGED <<restvars, gna_stuck, is_making_progress, distance,
                   diversity_score, attempt, current_temp, corr_args, frame>>

CorrNext == Correct

CorrSpec == CorrInit /\ [][CorrNext]_vars

\* Everything but pc and frame, and its value while one function is run on
\* its own.
loopvars ==
    <<restvars, gna_stuck, is_making_progress, distance, diversity_score,
      attempt, current_temp, correction, corr_args>>

LoopAtRest ==
    /\ AtRest
    /\ gna_stuck = 0
    /\ is_making_progress = TRUE
    /\ distance = 0
    /\ diversity_score = 0
    /\ attempt = 0
    /\ current_temp = None
    /\ correction = NoCorrection
    /\ corr_args = NoArgs

\* The loop runs in one thread and every call it makes returns or raises,
\* so a step that can be taken is eventually taken.
LiveInit == deep = FALSE /\ max_steps \in 0..LiveSteps /\ Start

FairSpec == LiveInit /\ [][Next]_vars /\ WF_vars(Next)

\* ------------------------------------------------------- with_timeout
\* One call with_timeout(func, ..., default): the caller starts the worker
\* thread, joins it with a timeout, asks whether it is alive and returns.
\* The worker runs func, stores its result in result[0] or logs its
\* exception, and ends.  frame.func says what func does, frame.at_timeout
\* what the worker was doing when the join timed out ("none" when the join
\* returned because the worker had ended), frame.alive what is_alive() said.
FuncResults == {"compared", "detected"}
Defaults == {"timed out", "compared"}

WithTimeoutInit ==
    /\ pc = "join"
    /\ \E raises \in BOOLEAN, value \in FuncResults, default \in Defaults :
           frame = [function |-> "with_timeout",
                    func |-> [raises |-> raises, value |-> value],
                    default |-> default,
                    result |-> default,
                    thread |-> "running",
                    at_timeout |-> "none",
                    alive |-> FALSE,
                    returned |-> "nothing"]
    /\ LoopAtRest

\* Variant: the caller is handed the result list itself, so that a store
\* after the return shows through.
TargetStoreShared ==
    /\ pc \in {"join", "is_alive", "with_timeout_returned"}
    /\ frame.thread = "running"
    /\ ~frame.func.raises
    /\ frame' = [frame EXCEPT !.result = frame.func.value,
                              !.thread = "stored",
                              !.returned =
                                  IF pc = "with_timeout_returned"
                                  THEN frame.func.value
                                  ELSE @]
    /\ UNCHANGED <<pc, loopvars>>

\* target(): func returns and its result is stored in result[0].
TargetStore ==
    /\ pc \in {"join", "is_alive", "with_timeout_returned"}
    /\ frame.thread = "running"
    /\ ~frame.func.raises
    /\ frame' = [frame EXCEPT !.result = frame.func.value,
                              !.thread = "stored"]
    /\ UNCHANGED <<pc, loopvars>>

\* target(): func raises, the exception is logged, result[0] is left alone.
TargetExcept ==
    /\ pc \in {"join", "is_alive", "with_timeout_returned"}
    /\ frame.thread = "running"
    /\ frame.func.raises
    /\ frame' = [frame EXCEPT !.thread = "caught"]
    /\ UNCHANGED <<pc, loopvars>>

\* The worker thread ends.
TargetEnd ==
    /\ pc \in {"join", "is_alive", "with_timeout_returned"}
    /\ frame.thread \in {"stored", "caught"}
    /\ frame' = [frame EXCEPT !.thread = "dead"]
    /\ UNCHANGED <<pc, loopvars>>

\* thread.join(timeout_duration) returns: the worker has ended, or the
\* timeout has run out.
Join(timed_out) ==
    /\ pc = "join"
    /\ IF timed_out
       THEN /\ frame.thread # "dead"
            /\ frame' = [frame EXCEPT !.at_timeout = frame.thread]
       ELSE /\ frame.thread = "dead"
            /\ UNCHANGED frame
    /\ pc' = "is_alive"
    /\ UNCHANGED loopvars

\* `if thread.is_alive(): return default`, else `return result[0]`.
IsAlive ==
    /\ pc = "is_alive"
    /\ pc' = "with_timeout_returned"
    /\ frame' = [frame EXCEPT !.alive = frame.thread # "dead",
                              !.returned = IF frame.thread # "dead"
                                           THEN frame.default
                                           ELSE frame.result]
    /\ UNCHANGED loopvars

WithTimeoutNext ==
    \/ TargetStore
    \/ TargetExcept
    \/ TargetEnd
    \/ \E timed_out \in BOOLEAN : Join(timed_out)
    \/ IsAlive

WithTimeoutSpec == WithTimeoutInit /\ [][WithTimeoutNext]_vars

\* ------------------------------------------------------- fingerprints
\* A perceptual hash is the set of its bits that are 1; the difference of
\* two hashes is the number of bits in which they differ.
Hashes == {{}, {1}, {1, 2}, {1, 2, 3, 4}, {1, 2, 3, 4, 5}, {1, 2, 3, 4, 5, 6}}

\* A screenshot: whether PIL can open it and the hash of its picture.
Screenshots ==
    [decodable : {TRUE}, phash : Hashes]
        \cup {[decodable |-> FALSE, phash |-> {}]}

\* The int 0 that stands in for a hash that could not be computed.
ZeroHash == [type |-> "int", bits |-> {}]

compute_image_hash(image) ==
    IF image.decodable
    THEN [type |-> "str", bits |-> image.phash]
    ELSE ZeroHash

\* imagehash.hex_to_hash takes the length of its argument: an int raises.
hex_to_hash(hexstr) ==
    IF hexstr.type = "str"
    THEN [raised |-> FALSE, value |-> [type |-> "ImageHash",
                                       bits |-> hexstr.bits]]
    ELSE [raised |-> TRUE, value |-> ZeroHash]

\* a - b: defined by ImageHash.__sub__ for two ImageHash objects, by int
\* for two ints, a TypeError for one of each.
hash_minus(a, b) ==
    IF a.type = "ImageHash" /\ b.type = "ImageHash"
    THEN [raised |-> FALSE,
          value |-> Cardinality((a.bits \ b.bits) \cup (b.bits \ a.bits))]
    ELSE IF a.type = "int" /\ b.type = "int"
    THEN [raised |-> FALSE, value |-> 0]
    ELSE [raised |-> TRUE, value |-> 0]

\* get_next_action from its first line to the temperature, as far as the
\* hashes go: the current screenshot and the last history entry, whose
\* screenshot_hash start_task computed when it appended the entry.
HashInit ==
    /\ pc = "current_hash"
    /\ \E screenshot \in Screenshots, stored \in BOOLEAN,
          previous \in Screenshots :
           /\ ~stored => previous = [decodable |-> FALSE, phash |-> {}]
           /\ frame = [function |-> "get_next_action",
                       screenshot |-> screenshot,
                       history_len |-> IF stored THEN 1 ELSE 0,
                       screenshot_hash |-> compute_image_hash(previous),
                       current_hash |-> ZeroHash,
                       distance |-> None,
                       screenshot_reminder |-> FALSE,
                       temperature_distance |-> None]
    /\ LoopAtRest

\* `current_hash = imagehash.hex_to_hash(current_hash_str)`, 0 on any error.
CurrentHash ==
    /\ pc = "current_hash"
    /\ pc' = "last_hash"
    /\ LET h == hex_to_hash(compute_image_hash(frame.screenshot))
       IN frame' = [frame EXCEPT !.current_hash =
                                     IF h.raised THEN ZeroHash ELSE h.value]
    /\ UNCHANGED loopvars

\* `if last_hash_str:` block: the distance, 0 on any error of the
\* subtraction, and the reminder.  hex_to_hash itself is outside the try
\* but is only reached with a non-empty string.
LastHash ==
    /\ pc = "last_hash"
    /\ pc' = "dynamic_temp"
    /\ IF frame.history_len >= 1 /\ frame.screenshot_hash.type = "str"
       THEN LET d == hash_minus(frame.current_hash,
                                hex_to_hash(frame.screenshot_hash).value)
                distance_ == IF d.raised THEN 0 ELSE d.value
            IN frame' = [frame EXCEPT
                            !.distance = distance_,
                            !.screenshot_reminder =
                                screenshot_reminder(distance_)]
       ELSE UNCHANGED frame
    /\ UNCHANGED loopvars

\* The third argument of calculate_dynamic_temperature, outside any try.
DynamicTempDistance ==
    /\ pc = "dynamic_temp"
    /\ IF frame.history_len > 0
       THEN LET last == hex_to_hash(frame.screenshot_hash)
                d == hash_minus(frame.current_hash, last.value)
            IN IF last.raised \/ d.raised
               THEN pc' = "raised" /\ UNCHANGED frame
               ELSE /\ pc' = "attempts"
                    /\ frame' = [frame EXCEPT
                                     !.temperature_distance = d.value]
       ELSE /\ pc' = "attempts"
            /\ frame' = [frame EXCEPT !.temperature_distance = 0]
    /\ UNCHANGED loopvars

HashNext == CurrentHash \/ LastHash \/ DynamicTempDistance

HashSpec == HashInit /\ [][HashNext]_vars

\* ------------------------------------------- calculate_action_diversity
\* History entries as calculate_action_diversity reads them: the tool name
\* and its args (x, y and key; None or "none" where the tool has none).
Entry(t, x, y, key) == [tool_name |-> t, args |-> [x |-> x, y |-> y, key |-> key]]

DiversityEntries ==
    {Entry("move_mouse", 100, 100, "none"),
     Entry("move_mouse", 200, 300, "none"),
     Entry("move_mouse", 1900, 1000, "none"),
     Entry("click", None, None, "none"),
     Entry("right_click", None, None, "none"),
     Entry("keypress", None, None, "Enter"),
     Entry("keypress", None, None, "Tab"),
     Entry("scroll_wheel_down", 100, None, "none")}

SectorWidth == 640
SectorHeight == 360
LastSector == 2
DiversityWindow == 5
Thousand == 1000

Min(a, b) == IF a <= b THEN a ELSE b

\* Variant: the signature of every tool but move_mouse is its name alone.
action_signature_by_name(item) ==
    IF item.tool_name = "move_mouse"
    THEN [tool_name |-> item.tool_name,
          rest |-> [x |-> Min(LastSector, item.args.x \div SectorWidth),
                    y |-> Min(LastSector, item.args.y \div SectorHeight),
                    key |-> "sector"]]
    ELSE [tool_name |-> item.tool_name,
          rest |-> [x |-> None, y |-> None, key |-> "none"]]

\* The signature of one entry: for move_mouse the tool name and the sector,
\* for any other tool the tool name and all of its args.
action_signature(item) ==
    IF item.tool_name = "move_mouse"
    THEN [tool_name |-> item.tool_name,
          rest |-> [x |-> Min(LastSector, item.args.x \div SectorWidth),
                    y |-> Min(LastSector, item.args.y \div SectorHeight),
                    key |-> "sector"]]
    ELSE [tool_name |-> item.tool_name, rest |-> item.args]

\* history[-window_size:]
recent_of(h, window_size) ==
    IF Len(h) >= window_size
    THEN SubSeq(h, Len(h) - window_size + 1, Len(h))
    ELSE h

\* The score in thousandths, rounded down.
calculate_action_diversity(h) ==
    IF Len(h) = 0
    THEN Thousand
    ELSE LET recent == recent_of(h, DiversityWindow)
             unique_actions ==
                 {action_signature(recent[i]) : i \in 1..Len(recent)}
         IN (Thousand * Cardinality(unique_actions)) \div Len(recent)

\* An entry older than the window, of a tool no entry of the window uses.
OlderEntry == Entry("scroll_wheel_up", 100, None, "none")

Histories(n) == UNION {[1..k -> DiversityEntries] : k \in 0..n}

\* Every history of up to DiversityWindow entries, and every full window
\* with older entries before it.
DiversityInit ==
    /\ pc = "diversity"
    /\ \E h \in Histories(DiversityWindow),
          older \in 0..(DiversityLen - DiversityWindow) :
           /\ older > 0 => Len(h) = DiversityWindow
           /\ frame = [function |-> "calculate_action_diversity",
                       history |-> [i \in 1..older |-> OlderEntry] \o h,
                       diversity |-> None]
    /\ LoopAtRest

CalculateDiversity ==
    /\ pc = "diversity"
    /\ pc' = "diversity_returned"
    /\ frame' = [frame EXCEPT
                    !.diversity = calculate_action_diversity(frame.history)]
    /\ UNCHANGED loopvars

DiversityNext == CalculateDiversity

DiversitySpec == DiversityInit /\ [][DiversityNext]_vars

\* ------------------------------------------- detect_progress_from_alignment
\* Texts are sequences of characters, so that `phrase in text` is the
\* substring test of the code.
\* successful, success, progress, aligned, intended, achieved, moved, changed,
\* clicked, loaded, appeared, correctly, as expected, visible, displayed
positive_indicators ==
    <<<<"s", "u", "c", "c", "e", "s", "s", "f", "u", "l">>,
      <<"s", "u", "c", "c", "e", "s", "s">>,
      <<"p", "r", "o", "g", "r", "e", "s", "s">>,
      <<"a", "l", "i", "g", "n", "e", "d">>,
      <<"i", "n", "t", "e", "n", "d", "e", "d">>,
      <<"a", "c", "h", "i", "e", "v", "e", "d">>,
      <<"m", "o", "v", "e", "d">>,
      <<"c", "h", "a", "n", "g", "e", "d">>,
      <<"c", "l", "i", "c", "k", "e", "d">>,
      <<"l", "o", "a", "d", "e", "d">>,
      <<"a", "p", "p", "e", "a", "r", "e", "d">>,
      <<"c", "o", "r", "r", "e", "c", "t", "l", "y">>,
      <<"a", "s", " ", "e", "x", "p", "e", "c", "t", "e", "d">>,
      <<"v", "i", "s", "i", "b", "l", "e">>,
      <<"d", "i", "s", "p", "l", "a", "y", "e", "d">>>>

\* not aligned, unsuccessful, failed, no change, same, stuck, did not, didn't,
\* hasn't, no progress, not as intended, not working, unintended, incorrect, error, missing
negative_indicators ==
    <<<<"n", "o", "t", " ", "a", "l", "i", "g", "n", "e", "d">>,
      <<"u", "n", "s", "u", "c", "c", "e", "s", "s", "f", "u", "l">>,
      <<"f", "a", "i", "l", "e", "d">>,
      <<"n", "o", " ", "c", "h", "a", "n", "g", "e">>,
      <<"s", "a", "m", "e">>,
      <<"s", "t", "u", "c", "k">>,
      <<"d", "i", "d", " ", "n", "o", "t">>,
      <<"d", "i", "d", "n", "'", "t">>,
      <<"h", "a", "s", "n", "'", "t">>,
      <<"n", "o", " ", "p", "r", "o", "g", "r", "e", "s", "s">>,
      <<"n", "o", "t", " ", "a", "s", " ", "i", "n", "t", "e", "n", "d", "e", "d">>,
      <<"n", "o", "t", " ", "w", "o", "r", "k", "i", "n", "g">>,
      <<"u", "n", "i", "n", "t", "e", "n", "d", "e", "d">>,
      <<"i", "n", "c", "o", "r", "r", "e", "c", "t">>,
      <<"e", "r", "r", "o", "r">>,
      <<"m", "i", "s", "s", "i", "n", "g">>>>

\* no change, did not, didn't, hasn't, same
strong_negatives ==
    <<<<"n", "o", " ", "c", "h", "a", "n", "g", "e">>,
      <<"d", "i", "d", " ", "n", "o", "t">>,
      <<"d", "i", "d", "n", "'", "t">>,
      <<"h", "a", "s", "n", "'", "t">>,
      <<"s", "a", "m", "e">>>>

\* What an alignment text is made of here:
\* Successfully clicked; new panel appeared; unsuccessful; Not aligned;
\* no change observed; the same page; it failed; the page
AlignmentPhrases ==
    <<<<"S", "u", "c", "c", "e", "s", "s", "f", "u", "l", "l", "y", " ", "c", "l", "i", "c", "k", "e", "d">>,
      <<"n", "e", "w", " ", "p", "a", "n", "e", "l", " ", "a", "p", "p", "e", "a", "r", "e", "d">>,
      <<"u", "n", "s", "u", "c", "c", "e", "s", "s", "f", "u", "l">>,
      <<"N", "o", "t", " ", "a", "l", "i", "g", "n", "e", "d">>,
      <<"n", "o", " ", "c", "h", "a", "n", "g", "e", " ", "o", "b", "s", "e", "r", "v", "e", "d">>,
      <<"t", "h", "e", " ", "s", "a", "m", "e", " ", "p", "a", "g", "e">>,
      <<"i", "t", " ", "f", "a", "i", "l", "e", "d">>,
      <<"t", "h", "e", " ", "p", "a", "g", "e">>>>

\* str.lower() on the capitals the phrases use.
lower(text) ==
    [i \in 1..Len(text) |->
        IF text[i] = "S" THEN "s" ELSE IF text[i] = "N" THEN "n" ELSE text[i]]

\* str.strip() of a text of blanks and phrases: only leading and trailing
\* blanks go.
RECURSIVE lstrip(_)
lstrip(text) ==
    IF Len(text) > 0 /\ Head(text) = " " THEN lstrip(Tail(text)) ELSE text

RECURSIVE rstrip(_)
rstrip(text) ==
    IF Len(text) > 0 /\ text[Len(text)] = " "
    THEN rstrip(SubSeq(text, 1, Len(text) - 1))
    ELSE text

\* `phrase in text`
contains(text, phrase) ==
    \E i \in 1..(Len(text) - Len(phrase) + 1) :
        SubSeq(text, i, i + Len(phrase) - 1) = phrase

\* sum(1 for word in indicators if word.lower() in text.lower())
count_indicators(indicators, text) ==
    Cardinality({k \in 1..Len(indicators) :
                    contains(lower(text), lower(indicators[k]))})

\* Variant: without the early return for an empty text.
detect_progress_from_alignment_unguarded(alignment_text) ==
    LET positive_count == count_indicators(positive_indicators, alignment_text)
        negative_count == count_indicators(negative_indicators, alignment_text)
    IN IF negative_count > positive_count THEN FALSE
       ELSE IF positive_count > negative_count THEN TRUE
       ELSE ~\E k \in 1..Len(strong_negatives) :
                 contains(lower(alignment_text), lower(strong_negatives[k]))

detect_progress_from_alignment(alignment_text) ==
    IF Len(alignment_text) = 0 \/ Len(rstrip(lstrip(alignment_text))) = 0
    THEN FALSE
    ELSE LET positive_count ==
                 count_indicators(positive_indicators, alignment_text)
             negative_count ==
                 count_indicators(negative_indicators, alignment_text)
         IN IF negative_count > positive_count THEN FALSE
            ELSE IF positive_count > negative_count THEN TRUE
            ELSE ~\E k \in 1..Len(strong_negatives) :
                      contains(lower(alignment_text),
                               lower(strong_negatives[k]))

\* The phrases of a set, in the order of AlignmentPhrases, each followed by
\* ", ".
RECURSIVE join(_, _)
join(chosen, k) ==
    IF k > Len(AlignmentPhrases)
    THEN <<>>
    ELSE (IF k \in chosen THEN AlignmentPhrases[k] \o <<",", " ">> ELSE <<>>)
             \o join(chosen, k + 1)

\* The alignment text compare_screenshots cuts out of the model's answer:
\* any choice of the phrases, after any number of leading blanks.
AlignmentInit ==
    /\ pc = "alignment"
    /\ \E chosen \in SUBSET (1..Len(AlignmentPhrases)), blanks \in 0..1 :
           frame = [function |-> "detect_progress_from_alignment",
                    alignment_text |->
                        [i \in 1..blanks |-> " "] \o join(chosen, 1),
                    is_making_progress |-> FALSE]
    /\ LoopAtRest

DetectProgress ==
    /\ pc = "alignment"
    /\ pc' = "alignment_returned"
    /\ frame' = [frame EXCEPT
                    !.is_making_progress =
                        detect_progress_from_alignment(frame.alignment_text)]
    /\ UNCHANGED loopvars

AlignmentNext == DetectProgress

AlignmentSpec == AlignmentInit /\ [][AlignmentNext]_vars

\* ------------------------------------------------------- intent matchers
\* An element as a matcher sees it: the facts its scoring rules test, and
\* `index`, its position in the order of discovery.  Confidences are
\* multiples of 10, so that confidence / 10 is a whole number of points.
OcrElements ==
    [text_in_intent : BOOLEAN,     \* element_text in intent_lower
     words_in_text : {0, 1},       \* target words found in element_text
     text_in_words : {0, 1},       \* other target words holding element_text
     short : BOOLEAN,              \* len(element_text) < 20
     confidence : {0, 100}]

DomElements ==
    [tagName : {"button", "div", "script"},
     visible : BOOLEAN,            \* position x and y are not negative
     text_in_intent : BOOLEAN,     \* element_text in intent_lower
     words_in_text : {0, 1},       \* target words found in element_text
     good_size : BOOLEAN]          \* 20..300 wide and 20..100 high

ExactPoints == 100
OcrWordPoints == 30
PartPoints == 20
ShortPoints == 15
ConfidenceCap == 10
OcrThreshold == 30
InteractivePoints == 30
DomWordPoints == 40
SizePoints == 10
DomThreshold == 30

ocr_score(element) ==
    (IF element.text_in_intent THEN ExactPoints ELSE 0)
        + OcrWordPoints * element.words_in_text
        + PartPoints * element.text_in_words
        + (IF element.short THEN ShortPoints ELSE 0)
        + Min(element.confidence \div 10, ConfidenceCap)

\* Elements outside the viewport and script tags are skipped unscored.
dom_skipped(element) == ~element.visible \/ element.tagName = "script"

dom_score(element) ==
    (IF element.tagName = "button" THEN InteractivePoints ELSE 0)
        + (IF element.text_in_intent THEN ExactPoints ELSE 0)
        + DomWordPoints * element.words_in_text
        + (IF element.good_size THEN SizePoints ELSE 0)

\* sorted(scored_elements, key=match_score, reverse=True): stable, so equal
\* scores stay in the order they came in.
RECURSIVE insert_by_score(_, _)
insert_by_score(item, sorted) ==
    IF sorted = <<>> \/ Head(sorted).match_score <= item.match_score
    THEN <<item>> \o sorted
    ELSE <<Head(sorted)>> \o insert_by_score(item, Tail(sorted))

RECURSIVE sorted_by_score(_)
sorted_by_score(items) ==
    IF items = <<>>
    THEN <<>>
    ELSE insert_by_score(Head(items), sorted_by_score(Tail(items)))

\* The scored elements of indices k..Len(elements) worth including.
RECURSIVE scored_ocr(_, _)
scored_ocr(elements, k) ==
    IF k > Len(elements)
    THEN <<>>
    ELSE (IF ocr_score(elements[k]) > OcrThreshold
          THEN <<[index |-> k, match_score |-> ocr_score(elements[k])]>>
          ELSE <<>>) \o scored_ocr(elements, k + 1)

RECURSIVE scored_dom(_, _)
scored_dom(elements, k) ==
    IF k > Len(elements)
    THEN <<>>
    ELSE (IF ~dom_skipped(elements[k])
             /\ dom_score(elements[k]) >= DomThreshold
          THEN <<[index |-> k, match_score |-> dom_score(elements[k])]>>
          ELSE <<>>) \o scored_dom(elements, k + 1)

find_elements_matching_intent(ui_elements) ==
    sorted_by_score(scored_ocr(ui_elements, 1))

find_dom_elements_matching_intent(elements) ==
    sorted_by_score(scored_dom(elements, 1))

MatchInit ==
    /\ pc = "match"
    /\ \E n \in 1..MatchLen :
          \/ \E ui_elements \in [1..n -> OcrElements] :
                frame = [function |-> "find_elements_matching_intent",
                         elements |-> ui_elements,
                         result |-> <<>>]
          \/ \E elements \in [1..n -> DomElements] :
                frame = [function |-> "find_dom_elements_matching_intent",
                         elements |-> elements,
                         result |-> <<>>]
    /\ LoopAtRest

MatchOcr ==
    /\ pc = "match"
    /\ frame.function = "find_elements_matching_intent"
    /\ pc' = "matched"
    /\ frame' = [frame EXCEPT
                    !.result = find_elements_matching_intent(frame.elements)]
    /\ UNCHANGED loopvars

MatchDom ==
    /\ pc = "match"
    /\ frame.function = "find_dom_elements_matching_intent"
    /\ pc' = "matched"
    /\ frame' = [frame EXCEPT
                    !.result =
                        find_dom_elements_matching_intent(frame.elements)]
    /\ UNCHANGED loopvars

MatchNext == MatchOcr \/ MatchDom

MatchSpec == MatchInit /\ [][MatchNext]_vars

\* ------------------------------------------- filter_clickable_elements
\* A DOM element as filter_clickable_elements reads it: the tag, the type
\* attribute, whether an attribute name holds "click", "mousedown" or
\* "touchstart", and the role attribute.
ClickElements ==
    [tagName : {"a", "button", "input", "div", "script", "style"},
     type : {"", "hidden"},
     handler : BOOLEAN,
     role : {"", "button"}]

\* What one pass of the loop body appends for an element: the element once,
\* twice (a handler attribute and then an interactive role), or nothing.
clickable_copies(element) ==
    IF /\ element.tagName \in {"a", "button", "input"}
       /\ (element.tagName # "input" \/ element.type # "hidden")
    THEN 1
    ELSE (IF element.handler THEN 1 ELSE 0)
             + (IF element.role = "button" THEN 1 ELSE 0)

RECURSIVE filter_clickable_elements(_, _)
filter_clickable_elements(dom_elements, k) ==
    IF k > Len(dom_elements)
    THEN <<>>
    ELSE [i \in 1..clickable_copies(dom_elements[k]) |-> k]
             \o filter_clickable_elements(dom_elements, k + 1)

FilterInit ==
    /\ pc = "filter"
    /\ \E n \in 1..FilterLen :
          \E dom_elements \in [1..n -> ClickElements] :
             frame = [function |-> "filter_clickable_elements",
                      dom_elements |-> dom_elements,
                      clickable_elements |-> <<>>]
    /\ LoopAtRest

\* clickable_elements holds the indices of the elements returned.
FilterClickable ==
    /\ pc = "filter"
    /\ pc' = "filtered"
    /\ frame' = [frame EXCEPT
                    !.clickable_elements =
                        filter_clickable_elements(frame.dom_elements, 1)]
    /\ UNCHANGED loopvars

FilterNext == FilterClickable

FilterSpec == FilterInit /\ [][FilterNext]_vars

\* ------------------------------------------- extract_ui_elements_with_ocr
\* A word of pytesseract's image_to_data: its confidence, its block and line
\* numbers (lines are numbered from 1 in every block) and the vertical
\* centre of its box.
OcrWords ==
    [conf : {40, 90},
     block_num : {1, 2},
     line_num : {1, 2},
     center_y : {100, 110, 121}]

min_confidence == 50
CenterTolerance == 10

OcrInit ==
    /\ pc = "ocr_word"
    /\ \E n \in 1..OcrLen :
          \E words \in [1..n -> OcrWords] :
             frame = [function |-> "extract_ui_elements_with_ocr",
                      ocr_data |-> words,
                      i |-> 1,
                      current_block |-> <<>>,
                      current_line |-> None,
                      text_blocks |-> <<>>]
    /\ LoopAtRest

\* One pass of `for i in range(n_boxes)`; current_block and text_blocks hold
\* the indices of the words.
OcrWord ==
    /\ pc = "ocr_word"
    /\ frame.i <= Len(frame.ocr_data)
    /\ LET word == frame.ocr_data[frame.i]
           block == frame.current_block
           far == /\ Len(block) > 0
                  /\ LET last == frame.ocr_data[block[Len(block)]].center_y
                     IN \/ word.center_y - last > CenterTolerance
                        \/ last - word.center_y > CenterTolerance
           start_new == frame.current_line # word.line_num \/ far
       IN IF word.conf < min_confidence
          THEN frame' = [frame EXCEPT !.i = @ + 1]
          ELSE frame' =
                 [frame EXCEPT
                    !.i = @ + 1,
                    !.text_blocks =
                        IF start_new /\ Len(block) > 0
                        THEN Append(@, block)
                        ELSE @,
                    !.current_line =
                        IF start_new THEN word.line_num ELSE @,
                    !.current_block =
                        IF start_new THEN <<frame.i>>
                        ELSE Append(block, frame.i)]
    /\ UNCHANGED <<pc, loopvars>>

\* "Don't forget the last block"
OcrLastBlock ==
    /\ pc = "ocr_word"
    /\ frame.i > Len(frame.ocr_data)
    /\ pc' = "ocr_blocks"
    /\ frame' = [frame EXCEPT
                    !.text_blocks = IF Len(frame.current_block) > 0
                                    THEN Append(@, frame.current_block)
                                    ELSE @,
                    !.current_block = <<>>]
    /\ UNCHANGED loopvars

OcrNext == OcrWord \/ OcrLastBlock

OcrSpec == OcrInit /\ [][OcrNext]_vars

\* ------------------------------------------------------- MCP server
\* rabbitize_mcp_server_simple.py: MCPServer.run reads stdin line by line
\* and prints one JSON-RPC response per request.
ParseErrorCode == -32700
MethodNotFound == -32601
InvalidParams == -32602
InternalError == -32603

\* A line of stdin: blank, not JSON ("garbage"), JSON that is not an object
\* ("scalar"), or a request object.  `arguments` is "given" (an object with
\* the tool's required argument), "missing" (no such key, or an empty
\* value) or "null".
Line(kind, id, method, name, arguments) ==
    [kind |-> kind, id |-> id, method |-> method, name |-> name,
     arguments |-> arguments]

Request(id, method) == Line("request", id, method, "none", "missing")

ToolsCall(id, name, arguments) ==
    Line("request", id, "tools/call", name, arguments)

Lines ==
    {Line("blank", None, "none", "none", "missing"),
     Line("garbage", None, "none", "none", "missing"),
     Line("scalar", None, "none", "none", "missing"),
     Request(1, "initialize"),
     Request(2, "tools/list"),
     Request(3, "resources/list"),
     ToolsCall(4, "rabbitize_start_session", "given"),
     ToolsCall(5, "rabbitize_start_session", "missing"),
     ToolsCall(6, "rabbitize_start_session", "null"),
     ToolsCall(7, "rabbitize_execute", "given"),
     ToolsCall(8, "rabbitize_execute", "missing"),
     ToolsCall(9, "rabbitize_click", "given"),
     ToolsCall(10, "rabbitize_status", "missing"),
     ToolsCall(11, "rabbitize_end_session", "missing")}

\* self.tools
tools ==
    {"rabbitize_start_session", "rabbitize_execute",
     "rabbitize_get_screenshot", "rabbitize_end_session", "rabbitize_status"}

\* The RabbitizeSession fields, and `posts`, the number of requests sent to
\* the Rabbitize backend.
NewSession ==
    [is_active |-> FALSE, session_id |-> "none", command_counter |-> 0,
     posts |-> 0]

\* _create_response(id, result=...) and _create_response(id, error=...)
Result(id) == [id |-> id, kind |-> "result", code |-> 0]
Error(id, code) == [id |-> id, kind |-> "error", code |-> code]

\* RabbitizeSession.start_session; ok: the backend answers 200.
start_session(s, ok) ==
    IF ok
    THEN [s EXCEPT !.posts = @ + 1, !.session_id = "session",
                   !.is_active = TRUE, !.command_counter = 0]
    ELSE [s EXCEPT !.posts = @ + 1]

\* Variant: the counter also counts the commands the backend refused.
execute_command_counting(s, ok) ==
    IF ~s.is_active THEN s
    ELSE [s EXCEPT !.posts = @ + 1, !.command_counter = @ + 1]

\* RabbitizeSession.execute_command
execute_command(s, ok) ==
    IF ~s.is_active THEN s
    ELSE IF ok THEN [s EXCEPT !.posts = @ + 1, !.command_counter = @ + 1]
    ELSE [s EXCEPT !.posts = @ + 1]

\* RabbitizeSession.end_session
end_session(s, ok) ==
    IF ~s.is_active THEN s
    ELSE IF ok THEN [s EXCEPT !.posts = @ + 1, !.is_active = FALSE,
                              !.session_id = "none"]
    ELSE [s EXCEPT !.posts = @ + 1]

\* Variant: the session is started before the url is looked at.
handle_tools_call_eager(request, s, ok) ==
    IF request.name \notin tools
    THEN [response |-> Error(request.id, MethodNotFound), session |-> s]
    ELSE IF request.name = "rabbitize_start_session"
    THEN IF request.arguments = "null"
         THEN [response |-> Error(request.id, InternalError), session |-> s]
         ELSE IF request.arguments = "missing"
         THEN [response |-> Error(request.id, InvalidParams),
               session |-> start_session(s, ok)]
         ELSE [response |-> Result(request.id),
               session |-> start_session(s, ok)]
    ELSE [response |-> Result(request.id), session |-> s]

\* MCPServer._handle_tools_call: the response and the session afterwards.
\* arguments.get on a null `arguments` raises, which the handler turns
\* into an internal error.
handle_tools_call(request, s, ok) ==
    IF request.name \notin tools
    THEN [response |-> Error(request.id, MethodNotFound), session |-> s]
    ELSE IF request.name = "rabbitize_start_session"
    THEN IF request.arguments = "null"
         THEN [response |-> Error(request.id, InternalError), session |-> s]
         ELSE IF request.arguments = "missing"
         THEN [response |-> Error(request.id, InvalidParams), session |-> s]
         ELSE [response |-> Result(request.id),
               session |-> start_session(s, ok)]
    ELSE IF request.name = "rabbitize_execute"
    THEN IF request.arguments = "null"
         THEN [response |-> Error(request.id, InternalError), session |-> s]
         ELSE IF request.arguments = "missing"
         THEN [response |-> Error(request.id, InvalidParams), session |-> s]
         ELSE [response |-> Result(request.id),
               session |-> execute_command(s, ok)]
    ELSE IF request.name = "rabbitize_end_session"
    THEN [response |-> Result(request.id), session |-> end_session(s, ok)]
    ELSE [response |-> Result(request.id), session |-> s]

\* MCPServer._handle_request
handle_request(request, s, ok) ==
    IF request.method \in {"initialize", "tools/list"}
    THEN [response |-> Result(request.id), session |-> s]
    ELSE IF request.method = "tools/call"
    THEN handle_tools_call(request, s, ok)
    ELSE [response |-> Error(request.id, MethodNotFound), session |-> s]

\* stdin is everything the client will send, i the line the loop is at,
\* stdout the responses printed, each with the index of the line it answers.
McpInit ==
    /\ pc = "serve"
    /\ \E n \in 1..McpLen :
          \E stdin \in [1..n -> Lines] :
             frame = [function |-> "MCPServer.run",
                      stdin |-> stdin,
                      i |-> 1,
                      stdout |-> <<>>,
                      session |-> NewSession]
    /\ LoopAtRest

Printed(response) == Append(frame.stdout, [line |-> frame.i] @@ response)

\* `if not line: continue`
BlankLine ==
    /\ pc = "serve"
    /\ frame.i <= Len(frame.stdin)
    /\ frame.stdin[frame.i].kind = "blank"
    /\ frame' = [frame EXCEPT !.i = @ + 1]
    /\ UNCHANGED <<pc, loopvars>>

\* Variant: the server gives up at a line that is not JSON.
ParseErrorStops ==
    /\ pc = "serve"
    /\ frame.i <= Len(frame.stdin)
    /\ frame.stdin[frame.i].kind = "garbage"
    /\ frame' = [frame EXCEPT !.i = @ + 1,
                              !.stdout = Printed(Error(None, ParseErrorCode))]
    /\ pc' = "stopped"
    /\ UNCHANGED loopvars

\* json.loads raises JSONDecodeError
ParseError ==
    /\ pc = "serve"
    /\ frame.i <= Len(frame.stdin)
    /\ frame.stdin[frame.i].kind = "garbage"
    /\ frame' = [frame EXCEPT !.i = @ + 1,
                              !.stdout = Printed(Error(None, ParseErrorCode))]
    /\ UNCHANGED <<pc, loopvars>>

\* The line is JSON but no object: request.get raises in _handle_request
\* and again in its except clause, and run answers with an internal error.
NotAnObject ==
    /\ pc = "serve"
    /\ frame.i <= Len(frame.stdin)
    /\ frame.stdin[frame.i].kind = "scalar"
    /\ frame' = [frame EXCEPT !.i = @ + 1,
                              !.stdout = Printed(Error(None, InternalError))]
    /\ UNCHANGED <<pc, loopvars>>

HandleRequest(ok) ==
    /\ pc = "serve"
    /\ frame.i <= Len(frame.stdin)
    /\ frame.stdin[frame.i].kind = "request"
    /\ LET r == handle_request(frame.stdin[frame.i], frame.session, ok)
       IN frame' = [frame EXCEPT !.i = @ + 1,
                                 !.stdout = Printed(r.response),
                                 !.session = r.session]
    /\ UNCHANGED <<pc, loopvars>>

\* stdin is exhausted: the loop ends and the session is cleaned up.
EndOfInput ==
    /\ pc = "serve"
    /\ frame.i > Len(frame.stdin)
    /\ pc' = "stopped"
    /\ UNCHANGED <<frame, loopvars>>

McpNext ==
    \/ BlankLine
    \/ ParseError
    \/ NotAnObject
    \/ \E ok \in BOOLEAN : HandleRequest(ok)
    \/ EndOfInput

McpSpec == McpInit /\ [][McpNext]_vars

\* ------------------------------------------------------- RabbitizeSession
\* Any sequence of calls of the session manager's methods, each backend
\* request answered with 200 (ok) or not.  frame.last_result is what the
\* last call returned; frame.executed counts the execute calls that
\* succeeded since the last start that succeeded.
SessionInit ==
    /\ pc = "session"
    /\ frame = [function |-> "RabbitizeSession",
                session |-> NewSession,
                calls |-> 0,
                last_call |-> "none",
                last_result |-> [success |-> FALSE,
                                commandIndex |-> None],
                executed |-> 0]
    /\ LoopAtRest

CallStart(ok) ==
    /\ pc = "session"
    /\ frame.calls < MaxCalls
    /\ frame' = [frame EXCEPT
                    !.session = start_session(frame.session, ok),
                    !.calls = @ + 1,
                    !.last_call = "start_session",
                    !.last_result = [success |-> ok, commandIndex |-> None],
                    !.executed = IF ok THEN 0 ELSE @]
    /\ UNCHANGED <<pc, loopvars>>

CallExecute(ok) ==
    /\ pc = "session"
    /\ frame.calls < MaxCalls
    /\ LET success == frame.session.is_active /\ ok
           after == execute_command(frame.session, ok)
       IN frame' = [frame EXCEPT
                       !.session = after,
                       !.calls = @ + 1,
                       !.last_call = "execute_command",
                       !.last_result =
                           [success |-> success,
                            commandIndex |-> IF success
                                             THEN after.command_counter
                                             ELSE None],
                       !.executed = IF success THEN @ + 1 ELSE @]
    /\ UNCHANGED <<pc, loopvars>>

CallEnd(ok) ==
    /\ pc = "session"
    /\ frame.calls < MaxCalls
    /\ frame' = [frame EXCEPT
                    !.session = end_session(frame.session, ok),
                    !.calls = @ + 1,
                    !.last_call = "end_session",
                    !.last_result =
                        [success |-> frame.session.is_active /\ ok,
                         commandIndex |-> None]]
    /\ UNCHANGED <<pc, loopvars>>

\* get_session_status reads the fields and changes nothing.
CallStatus ==
    /\ pc = "session"
    /\ frame.calls < MaxCalls
    /\ frame' = [frame EXCEPT
                    !.calls = @ + 1,
                    !.last_call = "get_session_status",
                    !.last_result = [success |-> TRUE, commandIndex |-> None]]
    /\ UNCHANGED <<pc, loopvars>>

SessionNext ==
    \/ \E ok \in BOOLEAN : CallStart(ok)
    \/ \E ok \in BOOLEAN : CallExecute(ok)
    \/ \E ok \in BOOLEAN : CallEnd(ok)
    \/ CallStatus

SessionSpec == SessionInit /\ [][SessionNext]_vars

TypeOK ==
    /\ pc \in {"start", "screenshot", "dom", "cursor", "select", "assess",
               "model", "command", "ending", "done", "temperature", "request",
               "returned", "correct", "corrected", "join", "is_alive",
               "with_timeout_returned",
               "current_hash", "last_hash", "dynamic_temp", "attempts", "raised",
               "diversity", "diversity_returned",
               "alignment", "alignment_returned",
               "match", "matched",
               "filter", "filtered",
               "ocr_word", "ocr_blocks",
               "serve", "stopped",
               "session"}
    /\ status \in {"running", "success", "timeout", "failed", "error"}
    /\ step \in 0..max_steps
    /\ Len(history) <= step

\* ------------------------------------------------------------ properties

\* C1: when the action chosen at loop index `step` is report_done, the
\* session is ended as 'success' with steps = step + 1, no command is sent
\* and no history entry is appended; ending the session changes neither.
C1_ReportDoneSucceeds ==
    [][/\ (pc = "command" /\ action.tool_name = "report_done")
          => /\ pc' = "ending"
             /\ status' = "success"
             /\ steps' = step + 1
             /\ history' = history
             /\ commands_sent' = commands_sent
       /\ pc = "ending" => status' = status /\ steps' = steps]_vars

\* report_done at loop index 1, after one executed step.
C1_Witness ==
    /\ pc = "done"
    /\ status = "success"
    /\ steps = 2
    /\ Len(history) = 1

\* C2: a session that leaves the loop without report_done and without a
\* fatal screenshot or command failure has run exactly max_steps iterations
\* and ends as 'timeout' with steps = max_steps; the index advances by one.
C2_TimeoutAfterMaxSteps ==
    /\ [](status = "timeout" => steps = max_steps /\ step = max_steps)
    /\ [][/\ step' \in {step, step + 1}
          /\ (/\ pc # "ending"
              /\ pc' = "ending"
              /\ ~(pc = "command" /\ action.tool_name = "report_done")
              /\ screenshot_attempt' # ScreenshotAttempts
              /\ retries' # CommandRetries)
             => /\ status' = "timeout"
                /\ steps' = max_steps
                /\ step' = max_steps]_vars

\* Three iterations, one of which ended without a history entry.
C2_Witness ==
    /\ pc = "done"
    /\ status = "timeout"
    /\ max_steps = MaxSteps
    /\ steps = MaxSteps
    /\ Len(history) < MaxSteps

\* C3 as stated: every finished session carries one of the three statuses
\* success, timeout, failed.
C3_ThreeStatuses ==
    pc = "done" => status \in {"success", "timeout", "failed"}

\* C3: every finished session carries exactly one of success, timeout,
\* failed and error; error is the status of a session whose start failed on
\* all attempts, before any step; a started session ends in one of the
\* other three; a status, once set, does not change.
C3_FourStatuses ==
    /\ [](/\ (status = "running") = (pc \notin {"ending", "done"})
          /\ pc = "done" => status \in {"success", "timeout", "failed", "error"}
          /\ status = "error"
             => /\ start_retries = StartRetries
                /\ step = 0
                /\ history = <<>>
                /\ commands_sent = 0
          /\ (pc = "done" /\ start_retries < StartRetries)
             => status \in {"success", "timeout", "failed"})
    /\ [][status # "running" => status' = status /\ steps' = steps]_vars

\* The session could not be started.
C3_Witness ==
    /\ pc = "done"
    /\ status = "error"
    /\ start_retries = StartRetries

\* C4: start_task eventually returns.
C4_Terminates == <>(pc = "done")

\* A run that used up its step budget, with a step that left no entry.
C4_Witness ==
    /\ pc = "done"
    /\ status = "timeout"
    /\ steps = LiveSteps
    /\ Len(history) < LiveSteps
    /\ end_retries = EndRetries

\* C5: the third failed screenshot attempt of step `step` ends the session
\* as 'failed' with steps = step; until a valid screenshot is held no model
\* request is made, no action chosen, no command sent and the history is
\* left alone.
C5_ScreenshotFailureFails ==
    /\ [](/\ pc \in {"dom", "cursor", "select", "assess", "model", "command"}
             => screenshot_success
          /\ pc = "screenshot"
             => /\ ~screenshot_success
                /\ screenshot_attempt < ScreenshotAttempts
                /\ requests = 0
                /\ action = NoAction)
    /\ [][/\ pc = "screenshot"
             => /\ pc' \in {"screenshot", "dom", "ending"}
                /\ history' = history
                /\ commands_sent' = commands_sent
                /\ requests' = 0
          /\ (pc = "screenshot" /\ screenshot_attempt' = ScreenshotAttempts)
             => /\ pc' = "ending"
                /\ status' = "failed"
                /\ steps' = step]_vars

\* The screenshot of the second step never validated.
C5_Witness ==
    /\ pc = "done"
    /\ status = "failed"
    /\ screenshot_attempt = ScreenshotAttempts
    /\ steps = 1
    /\ Len(history) = 1

\* C6: a main-loop command that fails on all attempts ends the session as
\* 'failed' with steps = step and without a history entry; the history
\* holds one entry per acknowledged command.
C6_CommandFailureFails ==
    /\ [](Len(history) = commands_sent)
    /\ [][/\ (pc = "command" /\ retries' = CommandRetries)
             => /\ pc' = "ending"
                /\ status' = "failed"
                /\ steps' = step
                /\ history' = history
                /\ commands_sent' = commands_sent
          /\ Len(history') # Len(history)
             => /\ pc = "command"
                /\ Len(history') = Len(history) + 1
                /\ commands_sent' = commands_sent + 1]_vars

\* The command of the second step was never acknowledged.
C6_Witness ==
    /\ pc = "done"
    /\ status = "failed"
    /\ retries = CommandRetries
    /\ steps = 1
    /\ Len(history) = 1

\* C7 as stated: whatever the model answers, get_next_action stays in its
\* attempt loop or returns an action to the main loop.
C7_AlwaysReturnsAction ==
    [][pc = "model" => pc' \in {"model", "command"}]_vars

\* C8 as stated: an action chosen after the attempts are exhausted is the
\* center move on an empty history, the diagonally opposite quadrant when
\* stuck after a move_mouse, and scroll_wheel_down otherwise.
C8_ThreeWayRule ==
    (pc = "command" /\ source \in {"fallback", "final", "emergency"})
    => IF Len(history) = 0
       THEN action = Move(960, 540)
       ELSE IF /\ stuck_counter >= StuckRegion
               /\ Last(history).tool_name = "move_mouse"
       THEN LET x == Last(history).x
                y == Last(history).y
            IN action = IF x < 960 /\ y < 540 THEN Move(1400, 800)
                        ELSE IF x >= 960 /\ y < 540 THEN Move(400, 800)
                        ELSE IF x < 960 /\ y >= 540 THEN Move(1400, 200)
                        ELSE Move(400, 200)
       ELSE action.tool_name = "scroll_wheel_down"

\* C9 as stated: the counter goes up by one when the fingerprint distance
\* is below the threshold and no progress was assessed, and to zero
\* otherwise.
C9_IncrementOrReset ==
    [][(pc = "assess" /\ Len(history) > 0)
       => gna_stuck' = IF distance < SimilarThreshold /\ ~is_making_progress
                       THEN gna_stuck + 1
                       ELSE 0]_vars

\* C9: the counter goes up by one when the comparison was skipped (previous
\* value 3 or more) or reported neither progress nor a visual change
\* (distance above 5); otherwise it becomes 0, or 1 when no visual change
\* was reported and the distance is below 5.
C9_StuckCounterUpdate ==
    /\ [](/\ (pc = "assess" /\ Len(history) > 0)
             => gna_stuck = Last(history).stuck_counter
          /\ (pc = "assess" /\ Len(history) > 0 /\ gna_stuck >= StuckSkip)
             => ~is_making_progress /\ ~has_visual_change
          /\ (pc = "assess" /\ Len(history) > 0 /\ has_visual_change)
             => distance > VisualChangeThreshold)
    /\ [][/\ (pc = "assess" /\ Len(history) > 0)
             => gna_stuck' = IF ~is_making_progress /\ ~has_visual_change
                             THEN gna_stuck + 1
                             ELSE IF /\ distance < SimilarThreshold
                                     /\ ~has_visual_change
                             THEN 1
                             ELSE 0
          /\ (pc = "assess" /\ Len(history) = 0) => gna_stuck' = 0
          /\ (pc = "model" /\ pc' = "command") => stuck_counter' = gna_stuck
          /\ Len(history') > Len(history)
             => Last(history').stuck_counter = stuck_counter]_vars

\* The counter passes the value at which the comparison is skipped.
C9_Witness ==
    /\ pc = "model"
    /\ Len(history) = 4
    /\ Last(history).stuck_counter = StuckSkip
    /\ gna_stuck = StuckSkip + 1

\* C10 as stated: at most 3 requests go to the vision model in one step.
C10_AtMostThreeCalls == requests <= ModelAttempts

\* C10: in one step get_next_action makes at most 3 attempts, one after the
\* other, and each attempt sends at most 3 requests to the vision model,
\* at most 9 in the step.
C10_AtMostNineRequests ==
    /\ attempt < ModelAttempts
    /\ api_attempt \in 1..ApiMaxAttempts
    /\ requests <= ModelAttempts * ApiMaxAttempts
    /\ pc = "model"
       => /\ requests <= attempt * ApiMaxAttempts + api_attempt - 1
          /\ requests >= attempt + api_attempt - 1

\* Nine requests timed out or failed before the emergency fallback.
C10_Witness ==
    /\ pc = "command"
    /\ source = "emergency"
    /\ requests = ModelAttempts * ApiMaxAttempts

\* C11: every temperature put into a payload lies in [0.1, 0.9], for every
\* stuck counter, progress flag, distance, diversity score and attempt.
C11_TemperatureInRange ==
    current_temp # None => (100 <= current_temp /\ current_temp <= 900)

\* The first attempt is already at the cap.
C11_Witness ==
    /\ pc = "request"
    /\ attempt = 0
    /\ current_temp = 900
    /\ diversity_score = 0

\* C12 as stated: each retry's temperature is higher than that of the
\* attempt before it.
C12_StrictlyHigher ==
    [][(pc = "temperature" /\ attempt > 0) => current_temp' > current_temp]_vars

\* C12: each retry's temperature is the previous attempt's plus 0.1, capped
\* at 0.9: never lower, and higher whenever the previous one was below 0.9.
C12_HigherUntilCap ==
    [][(pc = "temperature" /\ attempt > 0)
       => /\ current_temp' >= current_temp
          /\ current_temp < 900 => current_temp' > current_temp
          /\ current_temp' = IF current_temp + 100 <= 900
                             THEN current_temp + 100
                             ELSE 900]_vars

\* Three attempts at 0.3, 0.4 and 0.5.
C12_Witness ==
    /\ pc = "request"
    /\ attempt = 2
    /\ current_temp = 500
    /\ gna_stuck = 0

\* C13: called with a green or blue cursor, the corrector returns failure
\* with the position it was given and has fetched no DOM data, run no OCR,
\* called no model and sent no move command.
C13_ClickableCursorReturnsAtOnce ==
    (pc = "corrected" /\ corr_args.cursor_color \in {"green", "blue"})
    => /\ ~correction.success
       /\ correction.position = corr_args.current_position
       /\ correction.dom_fetches = 0
       /\ correction.ocr_runs = 0
       /\ correction.model_calls = 0
       /\ correction.moves_sent = 0

\* A blue cursor, although every tier would have found a target.
C13_Witness ==
    /\ pc = "corrected"
    /\ corr_args.cursor_color = "blue"
    /\ corr_args.dom = "moved"
    /\ corr_args.ocr = "moved"

\* C14: the OCR tier runs only after the DOM tier did not succeed, the
\* model is called only after neither did, a tier that succeeds ends the
\* correction, and at most one move command is acknowledged.
C14_TiersInOrder ==
    pc = "corrected"
    => /\ correction.ocr_runs > 0
          => correction.dom_fetches > 0 /\ corr_args.dom # "moved"
       /\ correction.model_calls > 0
          => /\ correction.ocr_runs > 0
             /\ corr_args.dom # "moved"
             /\ corr_args.ocr # "moved"
       /\ (corr_args.cursor_color \in {"red", "not_found"}
           /\ corr_args.dom = "moved")
          => /\ correction.success
             /\ correction.ocr_runs = 0
             /\ correction.model_calls = 0
       /\ (corr_args.cursor_color \in {"red", "not_found"}
           /\ corr_args.dom # "moved" /\ corr_args.ocr = "moved")
          => correction.success /\ correction.model_calls = 0
       /\ correction.moves_ok <= 1
       /\ correction.success => correction.moves_ok = 1

\* The model-guided move succeeds after both earlier moves failed.
C14_Witness ==
    /\ pc = "corrected"
    /\ correction.success
    /\ correction.model_calls = 1
    /\ correction.moves_sent = 3
    /\ correction.moves_ok = 1

\* C15 as stated: when a move command of the corrector fails, the corrector
\* returns failure with the position unchanged and the error as explanation.
C15_MoveFailureReturnsFailure ==
    correction.moves_sent > correction.moves_ok
    => /\ ~correction.success
       /\ correction.explanation = "Failed to execute move"

\* C15: a failed move command of the corrector never ends the step or the
\* session; after a failed DOM- or OCR-guided move the next tier runs and
\* may still succeed; a failed model-guided move returns failure with the
\* error as explanation; a failure leaves the last history entry as it was.
C15_MoveFailureNotFatal ==
    /\ [](/\ correction.explanation = "Failed to execute move"
             => /\ ~correction.success
                /\ correction.model_calls = 1
                /\ correction.moves_sent > correction.moves_ok
          /\ correction.moves_sent > correction.moves_ok
             => \/ correction.explanation = "Failed to execute move"
                \/ correction.ocr_runs = 1
          /\ correction.success => correction.moves_ok = 1
          /\ correction.moves_sent <= 3)
    /\ [][pc = "cursor"
          => /\ pc' = "select"
             /\ status' = "running"
             /\ ~correction'.success => history' = history]_vars

\* The DOM-guided move failed and the OCR-guided one was acknowledged.
C15_Witness ==
    /\ pc = "select"
    /\ correction.success
    /\ correction.explanation = "OCR-guided"
    /\ correction.moves_sent = 2

\* C16: the model-assisted tier sends a move command exactly when the
\* answer reads COORDINATES: x,y with 0 <= x <= 1920 and 0 <= y <= 1080;
\* any other answer returns failure with the position unchanged.
C16_ModelMoveOnlyOnValidParse ==
    (pc = "corrected" /\ correction.model_calls = 1)
    => LET earlier == (IF corr_args.dom = "cmdfail" THEN 1 ELSE 0)
                      + (IF corr_args.ocr = "cmdfail" THEN 1 ELSE 0)
           valid == /\ corr_args.answer.kind = "coords"
                    /\ 0 <= corr_args.answer.x
                    /\ corr_args.answer.x <= 1920
                    /\ 0 <= corr_args.answer.y
                    /\ corr_args.answer.y <= 1080
       IN /\ valid => correction.moves_sent = earlier + 1
          /\ ~valid
             => /\ correction.moves_sent = earlier
                /\ ~correction.success
                /\ correction.position = corr_args.current_position
          /\ correction.success
             => correction.position
                    = <<corr_args.answer.x, corr_args.answer.y>>

\* The model names a point just past the right edge.
C16_Witness ==
    /\ pc = "corrected"
    /\ correction.model_calls = 1
    /\ corr_args.answer.kind = "coords"
    /\ corr_args.answer.x = 1921
    /\ corr_args.answer.y = 300
    /\ corr_args.move_ok
    /\ ~correction.success

\* C17: the corrector is called exactly in a step whose last history entry
\* is a move_mouse, whose cursor is red or not found and whose stuck
\* counter is positive; when it succeeds, x and y of the last entry become
\* the corrected position and nothing else of the history changes; when it
\* fails the history is left alone.
C17_CorrectionRewritesLastEntry ==
    [][pc = "cursor"
       => LET due == /\ Len(history) > 0
                     /\ Last(history).tool_name = "move_mouse"
                     /\ stuck_counter > 0
              called == correction' # NoCorrection
          IN /\ called => due
             /\ (due /\ cursor_color' \in {"red", "not_found"})
                => called /\ ~correction'.success
             /\ cursor_color' = "unknown" => called /\ correction'.success
             /\ ~correction'.success => history' = history
             /\ correction'.success
                => /\ Len(history') = Len(history)
                   /\ \A i \in 1..(Len(history) - 1) : history'[i] = history[i]
                   /\ Last(history').x = correction'.position[1]
                   /\ Last(history').y = correction'.position[2]
                   /\ Last(history').tool_name = Last(history).tool_name
                   /\ Last(history').agent_explanation
                          = Last(history).agent_explanation
                   /\ Last(history').stuck_counter
                          = Last(history).stuck_counter
                   /\ Last(history').screenshot = Last(history).screenshot]_vars

\* The second of two moves to (100,100) was corrected.
C17_Witness ==
    /\ pc = "select"
    /\ correction.success
    /\ Len(history) = 2
    /\ history[1].tool_name = "move_mouse"
    /\ history[1].x = 100
    /\ history[2].x = CorrPoint[1]
    /\ history[2].y = CorrPoint[2]

\* C18: whenever the history holds more than ten entries, every entry older
\* than the five most recent has empty screenshot bytes and every entry has
\* its tool name and explanation; no step removes an entry or changes the
\* tool name or explanation of one, and a step that changes the screenshot
\* of an entry empties it and changes nothing else of it.
C18_PruningKeepsText ==
    /\ [](Len(history) > HistoryCap
          => /\ \A i \in 1..(Len(history) - KeepScreenshots) :
                    ~history[i].screenshot
             /\ \A i \in 1..Len(history) :
                    /\ history[i].tool_name \in KnownTools
                    /\ history[i].agent_explanation # "none")
    /\ [][/\ Len(history') >= Len(history)
          /\ \A i \in 1..Len(history) :
                /\ history'[i].tool_name = history[i].tool_name
                /\ history'[i].agent_explanation
                       = history[i].agent_explanation
                /\ history'[i].screenshot # history[i].screenshot
                   => history'[i] = [history[i] EXCEPT !.screenshot = FALSE]]_vars

\* Eleven entries: the six oldest pruned, the five most recent intact.
C18_Witness ==
    /\ Len(history) = HistoryCap + 1
    /\ ~history[HistoryCap + 1 - KeepScreenshots].screenshot
    /\ history[HistoryCap + 2 - KeepScreenshots].screenshot
    /\ history[1].tool_name \in KnownTools
    /\ history[1].agent_explanation # "none"

C20_KeptUpToTen ==
    Len(history) <= HistoryCap
    => \A i \in 1..Len(history) : history[i].screenshot

\* C21: (as stated) for every distance between the previous and the current
\* screenshot, a completed comparison reports no visual change exactly when
\* the similarity reminder is shown.
C21_SameThreshold ==
    (pc = "assess" /\ Len(history) > 0)
    => (~compare_screenshots(TRUE, TRUE, is_making_progress, distance).visual
        <=> screenshot_reminder(distance))

\* C22: (as stated) with_timeout returns func's result when func finished
\* within the timeout without raising, and the default when func raised or
\* was still running at the timeout.
C22_DefaultAtTimeout ==
    pc = "with_timeout_returned"
    => IF ~frame.func.raises /\ frame.at_timeout \in {"none", "stored"}
       THEN frame.returned = frame.func.value
       ELSE frame.returned = frame.default

\* C22: (amended) with_timeout returns the default when func raised or the
\* worker is still alive when the caller asks after the join, and func's
\* result when the worker has ended by then without raising; a join that
\* returned before its timeout gives func's result unless func raised; and
\* once with_timeout has returned, nothing the worker does changes the
\* value returned.
C22_DefaultWhenAlive ==
    /\ [](pc = "with_timeout_returned"
          => /\ frame.returned \in {frame.func.value, frame.default}
             /\ frame.func.raises => frame.returned = frame.default
             /\ frame.alive => frame.returned = frame.default
             /\ (~frame.alive /\ ~frame.func.raises)
                => frame.returned = frame.func.value
             /\ (frame.at_timeout = "none" /\ ~frame.func.raises)
                => frame.returned = frame.func.value)
    /\ [][pc = "with_timeout_returned"
          => frame'.returned = frame.returned]_vars

\* The worker, abandoned while still running, stored its result after the
\* caller had received the default.
C22_Witness ==
    /\ pc = "with_timeout_returned"
    /\ frame.at_timeout = "running"
    /\ frame.alive
    /\ frame.thread = "dead"
    /\ frame.result = "detected"
    /\ frame.returned = "timed out"

\* C23: (as stated) get_next_action called with a screenshot that cannot be
\* hashed, or with a history whose last entry carries the zero value for
\* its hash, gets as far as asking the model: no exception escapes.
C23_FailedHashHarmless ==
    (\/ ~frame.screenshot.decodable
     \/ (frame.history_len > 0 /\ frame.screenshot_hash = ZeroHash))
    => pc # "raised"

\* C24: (as stated) the score is the number of distinct signatures among the
\* last five entries over the number of those entries, the signature being
\* the tool name and, for move_mouse only, the 3x3 sector of the target.
C24_NameAndSector ==
    pc = "diversity_returned" /\ Len(frame.history) > 0
    => LET h == frame.history
           n == Min(Len(h), DiversityWindow)
           window == (Len(h) - n + 1)..Len(h)
           column(x) == IF x < SectorWidth THEN 0
                        ELSE IF x < 2 * SectorWidth THEN 1 ELSE 2
           row(y) == IF y < SectorHeight THEN 0
                     ELSE IF y < 2 * SectorHeight THEN 1 ELSE 2
           same(i, j) ==
               /\ h[i].tool_name = h[j].tool_name
               /\ h[i].tool_name = "move_mouse"
                  => /\ column(h[i].args.x) = column(h[j].args.x)
                     /\ row(h[i].args.y) = row(h[j].args.y)
           first == {i \in window : \A j \in window : j < i => ~same(i, j)}
       IN frame.diversity = (Thousand * Cardinality(first)) \div n

\* C24: (amended) the score is the number of distinct signatures among the
\* last five entries over the number of those entries, the signature being
\* the tool name and the 3x3 sector of the target for move_mouse, the tool
\* name and all of the args for any other tool; five moves into one sector
\* give 0.2, five distinct tools give 1.0, an empty history gives 1.0 and
\* the score is always in (0, 1].
C24_NameAndSectorOrArgs ==
    pc = "diversity_returned"
    => LET h == frame.history
           n == Min(Len(h), DiversityWindow)
           window == (Len(h) - n + 1)..Len(h)
           column(x) == IF x < SectorWidth THEN 0
                        ELSE IF x < 2 * SectorWidth THEN 1 ELSE 2
           row(y) == IF y < SectorHeight THEN 0
                     ELSE IF y < 2 * SectorHeight THEN 1 ELSE 2
           same(i, j) ==
               /\ h[i].tool_name = h[j].tool_name
               /\ IF h[i].tool_name = "move_mouse"
                  THEN /\ column(h[i].args.x) = column(h[j].args.x)
                       /\ row(h[i].args.y) = row(h[j].args.y)
                  ELSE h[i].args = h[j].args
           first == {i \in window : \A j \in window : j < i => ~same(i, j)}
       IN /\ frame.diversity > 0
          /\ frame.diversity <= Thousand
          /\ Len(h) = 0 => frame.diversity = Thousand
          /\ Len(h) > 0
             => frame.diversity = (Thousand * Cardinality(first)) \div n
          /\ (/\ n = DiversityWindow
              /\ \A i \in window : /\ h[i].tool_name = "move_mouse"
                                   /\ same(i, Len(h)))
             => frame.diversity = 200
          /\ (/\ n = DiversityWindow
              /\ \A i, j \in window :
                    i # j => h[i].tool_name # h[j].tool_name)
             => frame.diversity = Thousand

\* Six entries, the last five all keypresses, of two different keys.
C24_Witness ==
    /\ pc = "diversity_returned"
    /\ Len(frame.history) = DiversityWindow + 1
    /\ \A i \in 2..Len(frame.history) :
           frame.history[i].tool_name = "keypress"
    /\ \E i \in 2..Len(frame.history) : frame.history[i].args.key = "Enter"
    /\ \E i \in 2..Len(frame.history) : frame.history[i].args.key = "Tab"
    /\ frame.diversity = 400

\* C25: (as stated) True when positive indicators outnumber negative ones,
\* False when negative outnumber positive, and on equal counts (both zero
\* included) False exactly when the text holds a strong negative phrase.
C25_CountsDecide ==
    pc = "alignment_returned"
    => LET text == frame.alignment_text
           positive_count == count_indicators(positive_indicators, text)
           negative_count == count_indicators(negative_indicators, text)
           strong == \E k \in 1..Len(strong_negatives) :
                        contains(lower(text), strong_negatives[k])
       IN /\ positive_count > negative_count => frame.is_making_progress
          /\ negative_count > positive_count => ~frame.is_making_progress
          /\ positive_count = negative_count
             => (frame.is_making_progress <=> ~strong)

\* C25: (amended) an empty or all-blank text gives False; for any other
\* text the counts decide as stated, and on equal counts the result is
\* False exactly when the text holds a strong negative phrase.  "Not
\* aligned, no change observed" gives False and "Successfully clicked, new
\* panel appeared" gives True.
C25_CountsDecideUnlessBlank ==
    pc = "alignment_returned"
    => LET text == frame.alignment_text
           blank == \A i \in 1..Len(text) : text[i] = " "
           positive_count == count_indicators(positive_indicators, text)
           negative_count == count_indicators(negative_indicators, text)
           strong == \E k \in 1..Len(strong_negatives) :
                        contains(lower(text), strong_negatives[k])
       IN /\ blank => ~frame.is_making_progress
          /\ (~blank /\ positive_count > negative_count)
             => frame.is_making_progress
          /\ negative_count > positive_count => ~frame.is_making_progress
          /\ (~blank /\ positive_count = negative_count)
             => (frame.is_making_progress <=> ~strong)
          /\ text = join({4, 5}, 1) => ~frame.is_making_progress
          /\ text = join({1, 2}, 1) => frame.is_making_progress

\* "new panel appeared, the same page, ": one indicator of each kind, and a
\* strong negative phrase.
C25_Witness ==
    /\ pc = "alignment_returned"
    /\ frame.alignment_text = join({2, 6}, 1)
    /\ count_indicators(positive_indicators, frame.alignment_text) = 1
    /\ count_indicators(negative_indicators, frame.alignment_text) = 1
    /\ ~frame.is_making_progress

\* C26: (as stated) in both matchers an element is in the result exactly
\* when its score is at least 30, and the result is in descending order of
\* score, equal scores in the order of discovery.
C26_SameMinimumScore ==
    pc = "matched"
    => LET ocr == frame.function = "find_elements_matching_intent"
           score(k) == IF ocr THEN ocr_score(frame.elements[k])
                       ELSE dom_score(frame.elements[k])
           scored(k) == ocr \/ ~dom_skipped(frame.elements[k])
           listed == {frame.result[i].index : i \in 1..Len(frame.result)}
       IN /\ \A k \in 1..Len(frame.elements) :
                k \in listed <=> (scored(k) /\ score(k) >= 30)
          /\ \A i \in 1..Len(frame.result) :
                frame.result[i].match_score = score(frame.result[i].index)
          /\ \A i, j \in 1..Len(frame.result) :
                i < j => \/ frame.result[i].match_score
                             > frame.result[j].match_score
                         \/ /\ frame.result[i].match_score
                                = frame.result[j].match_score
                            /\ frame.result[i].index < frame.result[j].index

\* C27: (as stated) filter_clickable_elements returns no script or style
\* element and returns every button and a element, whatever attributes and
\* role they carry.
C27_NoScriptEveryButton ==
    pc = "filtered"
    => LET returned == {frame.clickable_elements[i] :
                           i \in 1..Len(frame.clickable_elements)}
       IN \A k \in 1..Len(frame.dom_elements) :
             /\ frame.dom_elements[k].tagName \in {"script", "style"}
                => k \notin returned
             /\ frame.dom_elements[k].tagName \in {"button", "a"}
                => k \in returned

\* C28: (as stated) no block of the output holds words of two different OCR
\* blocks or lines, and two neighbouring words of a block have the same
\* line number and vertical centres within 10 px.
C28_BlocksWithinOneLine ==
    pc = "ocr_blocks"
    => \A b \in 1..Len(frame.text_blocks) :
          LET block == frame.text_blocks[b]
              word(k) == frame.ocr_data[block[k]]
          IN /\ \A j, k \in 1..Len(block) :
                   /\ word(j).block_num = word(k).block_num
                   /\ word(j).line_num = word(k).line_num
             /\ \A k \in 2..Len(block) :
                   /\ word(k).center_y - word(k - 1).center_y
                          <= CenterTolerance
                   /\ word(k - 1).center_y - word(k).center_y
                          <= CenterTolerance

\* C29: (as stated) every non-blank line gets exactly one response, in input
\* order; a request with a known method gets a result with its id, one with
\* an unknown method the error -32601 with its id, a line that is not JSON
\* the error -32700 with id null.
C29_KnownMethodGetsResult ==
    /\ Len(frame.stdout)
           = Cardinality({k \in 1..(frame.i - 1) :
                             frame.stdin[k].kind # "blank"})
    /\ \A k \in 1..Len(frame.stdout) :
          LET response == frame.stdout[k]
              line == frame.stdin[response.line]
          IN /\ line.kind = "garbage"
                => response = [line |-> response.line]
                                  @@ Error(None, ParseErrorCode)
             /\ (line.kind = "request"
                 /\ line.method \in {"initialize", "tools/list", "tools/call"})
                => response = [line |-> response.line] @@ Result(line.id)
             /\ (line.kind = "request"
                 /\ line.method \notin {"initialize", "tools/list",
                                        "tools/call"})
                => response = [line |-> response.line]
                                  @@ Error(line.id, MethodNotFound)

\* C29: (amended) every non-blank line gets exactly one response, in input
\* order: the error -32700 with id null for a line that is not JSON, the
\* error -32603 with id null for JSON that is no object, the error -32601
\* with the request's id for an unknown method, a result with the request's
\* id for initialize and tools/list, and for tools/call a response with the
\* request's id that is a result or one of the errors -32601, -32602,
\* -32603; the server stops only when its input is exhausted.
C29_OneResponsePerLine ==
    /\ Len(frame.stdout)
           = Cardinality({k \in 1..(frame.i - 1) :
                             frame.stdin[k].kind # "blank"})
    /\ \A j, k \in 1..Len(frame.stdout) :
          j < k => frame.stdout[j].line < frame.stdout[k].line
    /\ \A k \in 1..Len(frame.stdout) :
          LET response == frame.stdout[k]
              line == frame.stdin[response.line]
          IN /\ response.line < frame.i
             /\ line.kind # "blank"
             /\ line.kind = "garbage"
                => response = [line |-> response.line]
                                  @@ Error(None, ParseErrorCode)
             /\ line.kind = "scalar"
                => response = [line |-> response.line]
                                  @@ Error(None, InternalError)
             /\ (line.kind = "request"
                 /\ line.method \in {"initialize", "tools/list"})
                => response = [line |-> response.line] @@ Result(line.id)
             /\ (line.kind = "request" /\ line.method = "tools/call")
                => /\ response.id = line.id
                   /\ \/ response.kind = "result"
                      \/ /\ response.kind = "error"
                         /\ response.code \in {MethodNotFound, InvalidParams,
                                               InternalError}
             /\ (line.kind = "request"
                 /\ line.method \notin {"initialize", "tools/list",
                                        "tools/call"})
                => response = [line |-> response.line]
                                  @@ Error(line.id, MethodNotFound)
    /\ pc = "stopped" => frame.i = Len(frame.stdin) + 1

\* A line that is not JSON, a blank line, then initialize: two responses,
\* the second a result, and the server stopped at the end of its input.
C29_Witness ==
    /\ pc = "stopped"
    /\ Len(frame.stdin) = 3
    /\ frame.stdin[1].kind = "garbage"
    /\ frame.stdin[2].kind = "blank"
    /\ frame.stdin[3].method = "initialize"
    /\ Len(frame.stdout) = 2
    /\ frame.stdout[1].code = ParseErrorCode
    /\ frame.stdout[2].kind = "result"
    /\ frame.stdout[2].line = 3

C31_CounterCountsExecutes ==
    /\ [](pc = "session"
          => /\ frame.session.command_counter = frame.executed
             /\ (frame.last_call = "execute_command"
                 /\ frame.last_result.success)
                => frame.last_result.commandIndex = frame.executed)
    /\ [][(pc = "session" /\ frame'.last_call = "execute_command"
           /\ frame'.calls # frame.calls /\ ~frame.session.is_active)
          => /\ ~frame'.last_result.success
             /\ frame'.session = frame.session]_vars

\* The second successful execute of the second session: the counter was
\* reset by the second start.
C31_Witness ==
    /\ pc = "session"
    /\ frame.calls = 5
    /\ frame.last_call = "execute_command"
    /\ frame.last_result.success
    /\ frame.last_result.commandIndex = 2
    /\ frame.session.posts = 5

\* C40: a /start request goes to the backend only while the manager holds
\* no active session, and an end_session call that fails leaves the session
\* fields as they were.
C40_StartOnlyWhenIdle ==
    [][(pc = "session" /\ frame'.calls # frame.calls)
       => /\ (frame'.last_call = "start_session"
              /\ frame'.session.posts # frame.session.posts)
             => ~frame.session.is_active
          /\ (frame'.last_call = "end_session"
              /\ ~frame'.last_result.success)
             => /\ frame'.session.is_active = frame.session.is_active
                /\ frame'.session.session_id = frame.session.session_id
                /\ frame'.session.command_counter =
                       frame.session.command_counter]_vars

\* C32: (as stated) the list returned by filter_clickable_elements is a
\* sub-list of its input: every entry is an input element and no input
\* element is returned more than once.
C32_ReturnsSubList ==
    pc = "filtered"
    => LET out == frame.clickable_elements
       IN /\ \A i \in 1..Len(out) : out[i] \in 1..Len(frame.dom_elements)
          /\ \A i, j \in 1..Len(out) : out[i] = out[j] => i = j

\* C33: a function call naming a tool that is not known sends no command and
\* records no history entry; the session does not fail, the step is used up
\* and the loop goes on with the next index (or ends as a timeout when that
\* was the last one).
C33_UnknownToolSkipsStep ==
    [][(pc = "command" /\ action.tool_name \notin KnownTools)
       => /\ commands_sent' = commands_sent
          /\ history' = history
          /\ step' = step + 1
          /\ IF step + 1 < max_steps
             THEN pc' = "screenshot" /\ status' = "running"
             ELSE pc' = "ending" /\ status' = "timeout"]_vars

\* An unknown tool chosen in the second step, after a step that sent a
\* command, with a third step still to come.
C33_Witness ==
    /\ pc = "command"
    /\ action.tool_name \notin KnownTools
    /\ step = 1
    /\ Len(history) = 1
    /\ commands_sent = 1
    /\ max_steps = MaxSteps

\* C34: a session whose start succeeded ends through exactly one call of
\* end_session: start_task returns only out of that call, and the call is
\* never entered a second time; a session whose start failed never gets one.
C34_EndSessionOnce ==
    /\ [][(pc # "done" /\ pc' = "done")
          => (pc = "ending") = (start_retries' < StartRetries)]_vars
    /\ [][(pc \in {"ending", "done"}) => (pc' \in {"ending", "done"})]_vars
    /\ [][pc = "done" => pc' = "done"]_vars
    /\ [][(pc # "ending" /\ pc' = "ending")
          => status = "running" /\ status' # "running"]_vars

\* end_session gave up after its retries at the end of a session that ran
\* out of steps.
C34_Witness ==
    /\ pc = "done"
    /\ status = "timeout"
    /\ end_retries = EndRetries
    /\ start_retries < StartRetries
    /\ commands_sent = MaxSteps

\* C35: get_next_action hands report_done to start_task only as the
\* function call of the model's own response, never out of a fallback, and
\* a session becomes a success only in a step where that happened.
C35_OnlyModelReportsDone ==
    /\ [](pc = "command"
          => /\ source \in {"model", "fallback", "final", "emergency"}
             /\ action.tool_name = "report_done" => source = "model")
    /\ [][(status # "success" /\ status' = "success")
          => /\ pc = "command"
             /\ action.tool_name = "report_done"
             /\ source = "model"]_vars

\* The last attempt failed after a keypress: the emergency fallback chose
\* the action of the second step.
C35_Witness ==
    /\ pc = "command"
    /\ source = "emergency"
    /\ step = 1
    /\ Len(history) = 1
    /\ Last(history).tool_name = "keypress"
    /\ action.tool_name = "move_mouse"

\* C36: once the last history entry records a counter of 3 or more, the
\* comparison is skipped in every later step, a step that selects an action
\* returns that recorded counter plus one, and neither the recorded counter
\* nor start_task's counter falls back to zero.
C36_StuckForGood ==
    /\ [](/\ (Len(history) > 0 /\ Last(history).stuck_counter >= StuckSkip)
             => /\ stuck_counter >= Last(history).stuck_counter
                /\ stuck_counter <= Last(history).stuck_counter + 1
          /\ (/\ pc = "assess" /\ Len(history) > 0
              /\ Last(history).stuck_counter >= StuckSkip)
             => ~is_making_progress /\ ~has_visual_change)
    /\ [][(Len(history) > 0 /\ Last(history).stuck_counter >= StuckSkip)
          => /\ Len(history') >= Len(history)
             /\ Last(history').stuck_counter >= Last(history).stuck_counter
             /\ (pc = "model" /\ pc' = "command")
                => stuck_counter' = Last(history).stuck_counter + 1]_vars

\* The fifth step selected an action after the fourth entry recorded 3.
C36_Witness ==
    /\ pc = "command"
    /\ step = 4
    /\ Len(history) = 4
    /\ Last(history).stuck_counter = StuckSkip
    /\ stuck_counter = StuckSkip + 1
    /\ action.tool_name = "move_mouse"

\* C37: the history never gets shorter; it gets longer, by one entry, exactly
\* in a step whose action is not report_done and whose command the browser
\* acknowledged; so when loop index i starts it holds at most i entries.
C37_HistoryGrowsWithCommands ==
    /\ [](Len(history) <= step)
    /\ [][/\ Len(history') >= Len(history)
          /\ Len(history') <= Len(history) + 1
          /\ (Len(history') = Len(history) + 1)
             = (/\ pc = "command"
                /\ action.tool_name # "report_done"
                /\ commands_sent' = commands_sent + 1)
          /\ Len(history') = Len(history) + 1 => step' = step + 1]_vars

\* A session that ran out of steps with one step that left no entry.
C37_Witness ==
    /\ pc = "ending"
    /\ status = "timeout"
    /\ step = LongSteps
    /\ Len(history) = LongSteps - 1
    /\ commands_sent = LongSteps - 1

\* C38: at most 6 history entries hold screenshot bytes at any time.
C38_AtMostSixScreenshots ==
    Cardinality({i \in 1..Len(history) : history[i].screenshot})
        <= KeepScreenshots + 1

\* Ten entries, the six most recent with their bytes: the entry of the tenth
\* step was appended after get_next_action pruned to five.
C38_Witness ==
    /\ Len(history) = HistoryCap
    /\ \A i \in 1..Len(history) :
          history[i].screenshot = (i >= HistoryCap - KeepScreenshots)

\* C39: (as stated) while loop index i runs, exactly i commands have been
\* acknowledged by the browser in the session, the corrector's moves
\* included, so that '<i-1>.jpg' is the screenshot of the latest command.
C39_OneCommandPerStep ==
    (status = "running" /\ pc # "start")
    => commands_sent + correction.moves_ok = step

====
